---- MODULE Spec2Model ----
(***************************************************************************)
(* Model of the vqp object validator: the Property class (rule registry,  *)
(* messages, validate/_run/_error, use, typecast, child paths), the        *)
(* built-in Validators and Messages, the path functions join, enumerate    *)
(* and walk, and the validation of an object by the owning Schema.         *)
(*                                                                         *)
(* JavaScript values are records with one field per primitive kind, so    *)
(* that values of different kinds can be compared.  Message templates are  *)
(* written in Russian in the source; the literals are transliterated here  *)
(* because the module is ASCII.                                            *)
(***************************************************************************)
EXTENDS Integers, Sequences, FiniteSets, TLC

VARIABLES registry, _type, messages, schemaMessages, last, registered, probe,
          schemaValidators, custom, schemaProps, lastDef, typecasters,
          lastCast, lastEnum, lastCheck, lastWalk, held, made, other, shared

\* the schema's definitions (path -> rules) and the latest call that defined
\* some
pathVars == <<schemaProps, lastDef>>
\* the schema's typecasters and the latest typecast
castVars == <<typecasters, lastCast>>
\* the latest enumeration of a path in an object, the latest walk of an object
enumVars == <<lastEnum, lastWalk>>
\* the latest validation of an object by the schema
checkVars == <<lastCheck>>
\* an object of named validators that a caller keeps and gives to use more
\* than once: as it is now, as it was made, the registry of a second property
\* of the schema, and the (property, name) pairs registered from it
shareVars == <<held, made, other, shared>>
auxVars == <<pathVars, castVars, enumVars, checkVars, shareVars>>
\* the variables that the operations of one property on its rules and
\* messages, and the validator applications, leave alone
extVars == <<schemaValidators, custom, auxVars>>

vars == <<registry, _type, messages, schemaMessages, last, registered, probe,
          extVars>>

propVars == <<registry, _type, messages, schemaMessages, last, registered>>

(***************************************************************************)
(* Bounds of the model.                                                    *)
(***************************************************************************)
\* strings and arrays have 0..MaxLen elements
MaxLen == 4
\* numbers range over -MaxNum..MaxNum
MaxNum == 2
\* rule bounds (min, max, exact) range over 0..MaxBound (length) and
\* -MaxBound..MaxBound (size)
MaxBound == 3
\* the registry of the modelled property holds at most MaxRules rules
MaxRules == 3

(***************************************************************************)
(* JavaScript values.                                                      *)
(***************************************************************************)
JsVal(t, b, n, s, a, min, max) ==
  [t |-> t, b |-> b, n |-> n, s |-> s, a |-> a, min |-> min, max |-> max]

Undefined == JsVal("undefined", FALSE, 0, "", <<>>, <<>>, <<>>)
Null      == JsVal("null", FALSE, 0, "", <<>>, <<>>, <<>>)
Bool(b)   == JsVal("boolean", b, 0, "", <<>>, <<>>, <<>>)
Num(n)    == JsVal("number", FALSE, n, "", <<>>, <<>>, <<>>)
Str(s)    == JsVal("string", FALSE, 0, s, <<>>, <<>>, <<>>)
Arr(a)    == JsVal("array", FALSE, 0, "", a, <<>>, <<>>)
\* a function value, identified by its name
Fun(name) == JsVal("function", FALSE, 0, name, <<>>, <<>>, <<>>)
\* a plain object; s identifies it
Obj(id)   == JsVal("object", FALSE, 0, id, <<>>, <<>>, <<>>)
\* the object literal { min, max }; an omitted key is the empty sequence
MinMax(min, max) == JsVal("object", FALSE, 0, "minmax", <<>>, min, max)

\* value == null
IsNullish(v) == v.t \in {"undefined", "null"}

\* ToBoolean
Truthy(v) ==
  CASE v.t \in {"undefined", "null"} -> FALSE
    [] v.t = "boolean" -> v.b
    [] v.t = "number" -> v.n # 0
    [] v.t = "string" -> v.s # ""
    [] OTHER -> TRUE

\* value.constructor of a primitive or object, as the global's name
Constructor(v) ==
  CASE v.t = "boolean" -> Fun("Boolean")
    [] v.t = "number" -> Fun("Number")
    [] v.t = "string" -> Fun("String")
    [] v.t = "array" -> Fun("Array")
    [] v.t = "function" -> Fun("Function")
    [] v.t = "object" -> Fun("Object")
    [] v.t = "regexp" -> Fun("RegExp")
    [] OTHER -> Undefined

\* component-type: the structural type name of a value
typeOf(v) == Str(v.t)

\* value.length: defined for strings and arrays
LengthOf(v) ==
  CASE v.t = "string" -> <<Len(v.s)>>
    [] v.t = "array" -> <<Len(v.a)>>
    [] OTHER -> <<>>

\* ToNumber, with NaN as the empty sequence
ToNumber(v) ==
  CASE v.t = "number" -> <<v.n>>
    [] v.t = "null" -> <<0>>
    [] v.t = "boolean" -> IF v.b THEN <<1>> ELSE <<0>>
    [] v.t = "string" -> IF v.s = "" THEN <<0>> ELSE <<>>
    [] v.t = "array" -> IF v.a = <<>> THEN <<0>>
                        ELSE IF Len(v.a) = 1 THEN <<v.a[1]>> ELSE <<>>
    [] OTHER -> <<>>

\* x < y and x > y on numbers-or-NaN: false when either side is NaN
NumLt(x, y) == x # <<>> /\ y # <<>> /\ x[1] < y[1]
NumGt(x, y) == x # <<>> /\ y # <<>> /\ x[1] > y[1]

(***************************************************************************)
(* Built-in validators (validators.js).                                    *)
(***************************************************************************)
Validators_required_Mut(value, ctx, required) ==
  IF required = Bool(FALSE) THEN TRUE
  ELSE ~IsNullish(value)

Validators_required(value, ctx, required) ==
  IF required = Bool(FALSE) THEN TRUE
  ELSE ~IsNullish(value) /\ value # Str("")

Validators_type_Mut(value, ctx, name) ==
  IF name.t = "function" THEN Constructor(value) = name
  ELSE typeOf(value) = name

Validators_type(value, ctx, name) ==
  IF IsNullish(value) THEN TRUE
  ELSE IF name.t = "function" THEN Constructor(value) = name
  ELSE typeOf(value) = name

Validators_length(value, ctx, len) ==
  IF IsNullish(value) THEN TRUE
  ELSE IF len.t = "number" THEN LengthOf(value) = <<len.n>>
  ELSE LET min == len.min
           max == len.max
       IN  IF min # <<>> /\ min[1] # 0 /\ NumLt(LengthOf(value), min) THEN FALSE
           ELSE IF max # <<>> /\ max[1] # 0 /\ NumGt(LengthOf(value), max) THEN FALSE
           ELSE TRUE

Validators_size_Mut(value, ctx, size) ==
  IF IsNullish(value) THEN TRUE
  ELSE IF size.t = "number" THEN value = size
  ELSE LET min == size.min
           max == size.max
       IN  IF min # <<>> /\ min[1] # 0 /\ NumLt(ToNumber(value), min) THEN FALSE
           ELSE IF max # <<>> /\ max[1] # 0 /\ NumGt(ToNumber(value), max) THEN FALSE
           ELSE TRUE

\* parseInt(x) != null holds for every x: parseInt yields a number or NaN
Validators_size(value, ctx, size) ==
  IF IsNullish(value) THEN TRUE
  ELSE IF size.t = "number" THEN value = size
  ELSE LET min == size.min
           max == size.max
       IN  IF NumLt(ToNumber(value), min) THEN FALSE
           ELSE IF NumGt(ToNumber(value), max) THEN FALSE
           ELSE TRUE

(***************************************************************************)
(* The validators as a specification of their own: the value is drawn in   *)
(* the initial state and each action applies one validator to it.          *)
(***************************************************************************)
RECURSIVE Repeat(_, _)
Repeat(s, n) == IF n = 0 THEN "" ELSE s \o Repeat(s, n - 1)

RECURSIVE Iota(_)
Iota(n) == IF n = 0 THEN <<>> ELSE Append(Iota(n - 1), n)

ProbeCtx == Obj("ctx")

ProbeValues ==
  {Undefined, Null, Bool(FALSE), Bool(TRUE), Obj("o")}
    \cup {Num(n) : n \in (-MaxNum)..MaxNum}
    \cup {Str(Repeat("a", n)) : n \in 0..MaxLen}
    \cup {Arr(Iota(n)) : n \in 0..MaxLen}

OptBound(S) == {<<>>} \cup {<<k>> : k \in S}

Probe(name, value, arg, ret) ==
  [name |-> name, value |-> value, arg |-> arg, ret |-> ret]

CallRequired ==
  \E required \in {Bool(TRUE), Bool(FALSE)} :
    /\ probe' = Probe("required", probe.value, required,
                      Validators_required(probe.value, ProbeCtx, required))
    /\ UNCHANGED <<propVars, extVars>>

CallType ==
  \E name \in {Fun("String"), Fun("Number"), Fun("Array"), Fun("Object"),
               Fun("Boolean"), Str("string"), Str("number"), Str("array"),
               Str("object"), Str("boolean"), Str("null")} :
    /\ probe' = Probe("type", probe.value, name,
                      Validators_type(probe.value, ProbeCtx, name))
    /\ UNCHANGED <<propVars, extVars>>

CallLength ==
  \E len \in {Num(n) : n \in 0..MaxBound}
               \cup {MinMax(min, max) : min \in OptBound(0..MaxBound),
                                        max \in OptBound(0..MaxBound)} :
    /\ probe' = Probe("length", probe.value, len,
                      Validators_length(probe.value, ProbeCtx, len))
    /\ UNCHANGED <<propVars, extVars>>

CallSize ==
  \E size \in {Num(n) : n \in (-MaxBound)..MaxBound}
                \cup {MinMax(min, max) : min \in OptBound((-MaxBound)..MaxBound),
                                         max \in OptBound((-MaxBound)..MaxBound)} :
    /\ probe' = Probe("size", probe.value, size,
                      Validators_size(probe.value, ProbeCtx, size))
    /\ UNCHANGED <<propVars, extVars>>

(***************************************************************************)
(* Built-in messages (messages.js) and the message generators used as      *)
(* inputs.  A generator yields a string, or undefined when no branch       *)
(* returns.                                                                *)
(***************************************************************************)
\* the i-th actual argument of a call, undefined when not passed
Arg(argv, i) == IF i <= Len(argv) THEN argv[i] ELSE Undefined

\* `${x}` in a template literal
Template(v) ==
  CASE v.t = "string" -> v.s
    [] v.t = "number" -> ToString(v.n)
    [] v.t = "boolean" -> IF v.b THEN "true" ELSE "false"
    [] v.t = "function" -> "function " \o v.s
    [] v.t = "object" -> "[object Object]"
    [] v.t = "array" -> "[array]"
    [] v.t = "regexp" -> "/" \o v.s \o "/"
    [] OTHER -> v.t

\* "<prop> должно быть по типу <type>."
Messages_type(prop, ctx, type) ==
  LET name == IF type.t = "function" THEN Str(type.s) ELSE type
  IN  Str(Template(prop) \o " dolzhno byt po tipu " \o Template(name) \o ".")

\* "<prop> обязательный параметр."
Messages_required(prop) ==
  Str(Template(prop) \o " obyazatelnyy parametr.")

Messages_length_Mut(prop, ctx, len) ==
  IF len.t = "number"
  THEN Str(Template(prop) \o " dolzhen imet dlinu " \o ToString(len.n) \o ".")
  ELSE LET min == len.min
           max == len.max
           hasMin == min # <<>> /\ min[1] # 0
           hasMax == max # <<>> /\ max[1] # 0
       IN  IF hasMax
           THEN Str(Template(prop) \o " dolzhen imet maksimalnuyu dlinu "
                      \o ToString(max[1]) \o ".")
           ELSE IF hasMin
           THEN Str(Template(prop) \o " dolzhen imet minimalnuyu dlinu "
                      \o ToString(min[1]) \o ".")
           ELSE Undefined

\* "<prop> должен иметь длину ..."
Messages_length(prop, ctx, len) ==
  IF len.t = "number"
  THEN Str(Template(prop) \o " dolzhen imet dlinu " \o ToString(len.n) \o ".")
  ELSE LET min == len.min
           max == len.max
           hasMin == min # <<>> /\ min[1] # 0
           hasMax == max # <<>> /\ max[1] # 0
       IN  IF hasMin /\ hasMax
           THEN Str(Template(prop) \o " dolzhen imet dlinu mezhdu "
                      \o ToString(min[1]) \o " i " \o ToString(max[1]) \o ".")
           ELSE IF hasMax
           THEN Str(Template(prop) \o " dolzhen imet maksimalnuyu dlinu "
                      \o ToString(max[1]) \o ".")
           ELSE IF hasMin
           THEN Str(Template(prop) \o " dolzhen imet minimalnuyu dlinu "
                      \o ToString(min[1]) \o ".")
           ELSE Undefined

\* "<prop> должен соответствовать <regexp>."
Messages_match(prop, ctx, regexp) ==
  Str(Template(prop) \o " dolzhen sootvetstvovat " \o Template(regexp) \o ".")

\* "<prop> должен иметь размер ..." / "<prop> должно быть ...": a bound is
\* present when it is not undefined
Messages_size(prop, ctx, size) ==
  IF size.t = "number"
  THEN Str(Template(prop) \o " dolzhen imet razmer " \o ToString(size.n) \o ".")
  ELSE LET min == size.min
           max == size.max
       IN  IF min # <<>> /\ max # <<>>
           THEN Str(Template(prop) \o " dolzhno byt mezhdu "
                      \o ToString(min[1]) \o " i " \o ToString(max[1]) \o ".")
           ELSE IF max # <<>>
           THEN Str(Template(prop) \o " dolzhno byt menshe chem "
                      \o ToString(max[1]) \o ".")
           ELSE IF min # <<>>
           THEN Str(Template(prop) \o " dolzhno byt bolshe chem "
                      \o ToString(min[1]) \o ".")
           ELSE Undefined

\* "Проверка не удалась для <prop>."
Messages_default(prop) ==
  Str("Proverka ne udalas dlya " \o Template(prop) \o ".")

\* bits: (path, ctx, bits) => `${path} must be ${bits}-bit`
bitsMessage(path, ctx, bits) ==
  Str(Template(path) \o " must be " \o Template(bits) \o "-bit")

\* a generator given by the caller that reports everything it receives:
\* (path, ctx, ...args) => `${path}@${ctx.id}#${args.length}`
describeMessage(argv) ==
  Str(Template(Arg(argv, 1)) \o "@" \o Arg(argv, 2).s \o "#"
        \o ToString(IF Len(argv) > 2 THEN Len(argv) - 2 ELSE 0))

\* message(...argv) for a message generator
\* items.join(sep) of an array of values
RECURSIVE JoinValues(_, _)
JoinValues(items, sep) ==
  IF items = <<>> THEN ""
  ELSE IF Len(items) = 1 THEN Template(items[1])
  ELSE Template(items[1]) \o sep \o JoinValues(Tail(items), sep)

\* what a message generator returns and the array it was given, as the call
\* leaves it
Generated(msg, enums) == [message |-> msg, enums |-> enums]

\* the last value is popped off the array enums itself
Messages_enum_Mut(prop, ctx, enums) ==
  LET lastOne == IF enums.a = <<>> THEN Undefined ELSE enums.a[Len(enums.a)]
      rest == IF enums.a = <<>> THEN <<>> ELSE SubSeq(enums.a, 1, Len(enums.a) - 1)
  IN  Generated(Str(Template(prop) \o " dolzhno byt libo " \o JoinValues(rest, ", ")
                      \o " ili " \o Template(lastOne) \o "."),
                Arr(rest))

\* "<prop> должно быть либо <copy.join(', ')> или <last>.": copy is
\* enums.slice(), and copy.pop() shortens the copy only
Messages_enum(prop, ctx, enums) ==
  LET copy == enums.a
      lastOne == IF copy = <<>> THEN Undefined ELSE copy[Len(copy)]
      rest == IF copy = <<>> THEN <<>> ELSE SubSeq(copy, 1, Len(copy) - 1)
  IN  Generated(Str(Template(prop) \o " dolzhno byt libo " \o JoinValues(rest, ", ")
                      \o " ili " \o Template(lastOne) \o "."),
                enums)

\* the static arguments as the call message(path, ctx, ...args) leaves them:
\* an array among them is the array the registry holds
CallMessageArgs(fn, argv) ==
  IF fn = Fun("Messages.enum")
  THEN <<Messages_enum(Arg(argv, 1), Arg(argv, 2), Arg(argv, 3)).enums>>
         \o SubSeq(argv, 4, Len(argv))
  ELSE SubSeq(argv, 3, Len(argv))

CallMessage(fn, argv) ==
  CASE fn = Fun("Messages.enum") ->
         Messages_enum(Arg(argv, 1), Arg(argv, 2), Arg(argv, 3)).message
    [] fn = Fun("Messages.type") ->
         Messages_type(Arg(argv, 1), Arg(argv, 2), Arg(argv, 3))
    [] fn = Fun("Messages.required") -> Messages_required(Arg(argv, 1))
    [] fn = Fun("Messages.length") ->
         Messages_length(Arg(argv, 1), Arg(argv, 2), Arg(argv, 3))
    [] fn = Fun("Messages.match") ->
         Messages_match(Arg(argv, 1), Arg(argv, 2), Arg(argv, 3))
    [] fn = Fun("Messages.size") ->
         Messages_size(Arg(argv, 1), Arg(argv, 2), Arg(argv, 3))
    [] fn = Fun("Messages.default") -> Messages_default(Arg(argv, 1))
    [] fn = Fun("bitsMessage") ->
         bitsMessage(Arg(argv, 1), Arg(argv, 2), Arg(argv, 3))
    [] fn = Fun("describeMessage") -> describeMessage(argv)
    [] OTHER -> Undefined

(***************************************************************************)
(* Custom validators given to Property.use.                                *)
(***************************************************************************)
\* bits: (val, ctx, bits) => val.length == bits
bitsFn(val, ctx, bits) ==
  /\ LengthOf(val) # <<>>
  /\ ToNumber(bits) = LengthOf(val)

\* validator(...argv)
\* enum(value, ctx, enums): enums.includes(value)
Validators_enum(value, ctx, enums) ==
  IF IsNullish(value) THEN TRUE
  ELSE \E i \in 1..Len(enums.a) : enums.a[i] = value

\* a regular expression, identified by its source
RegExp(source) == JsVal("regexp", FALSE, 0, source, <<>>, <<>>, <<>>)

\* String(value); the arrays given to match hold plain numbers
RECURSIVE JoinNumbers(_)
JoinNumbers(items) ==
  IF items = <<>> THEN ""
  ELSE IF Len(items) = 1 THEN ToString(items[1])
  ELSE ToString(items[1]) \o "," \o JoinNumbers(Tail(items))
StringOf(v) == IF v.t = "array" THEN JoinNumbers(v.a) ELSE Template(v)

\* regexp.test(value): the value is converted to a string first
regexp_test(regexp, value) ==
  LET str == StringOf(value)
      onlyA == \A k \in 1..Len(str) : SubSeq(str, k, k) = "a"
  IN  CASE regexp.s = "^a+$" -> Len(str) > 0 /\ onlyA
        [] regexp.s = "^a*$" -> onlyA
        [] regexp.s = "^$" -> str = ""
        [] OTHER -> FALSE

\* the regular expression is tested on null and undefined too
Validators_match_Mut(value, ctx, regexp) == regexp_test(regexp, value)

\* match(value, ctx, regexp)
Validators_match(value, ctx, regexp) ==
  IF IsNullish(value) THEN TRUE
  ELSE regexp_test(regexp, value)

CallValidator(validator, argv) ==
  CASE validator = Fun("Validators.enum") ->
         Validators_enum(Arg(argv, 1), Arg(argv, 2), Arg(argv, 3))
    [] validator = Fun("Validators.match") ->
         Validators_match(Arg(argv, 1), Arg(argv, 2), Arg(argv, 3))
    [] validator = Fun("Validators.required") ->
         Validators_required(Arg(argv, 1), Arg(argv, 2), Arg(argv, 3))
    [] validator = Fun("Validators.type") ->
         Validators_type(Arg(argv, 1), Arg(argv, 2), Arg(argv, 3))
    [] validator = Fun("Validators.length") ->
         Validators_length(Arg(argv, 1), Arg(argv, 2), Arg(argv, 3))
    [] validator = Fun("Validators.size") ->
         Validators_size(Arg(argv, 1), Arg(argv, 2), Arg(argv, 3))
    [] validator = Fun("bitsFn") ->
         bitsFn(Arg(argv, 1), Arg(argv, 2), Arg(argv, 3))
    [] validator = Fun("notNullFn") -> ~IsNullish(Arg(argv, 1))
    [] validator = Fun("acceptFn") -> TRUE
    [] validator = Fun("rejectFn") -> FALSE
    [] OTHER -> FALSE

(***************************************************************************)
(* The owning schema's registries, seeded with the built-in tables.        *)
(***************************************************************************)
MessageKeys ==
  {"required", "type", "length", "size", "enum", "match", "bits", "default"}

\* the rule names of the model
RuleNames == {"required", "type", "length", "size", "enum", "match", "bits"}

DefaultValidators ==
  [k \in RuleNames |->
     IF k = "bits" THEN Undefined ELSE Fun("Validators." \o k)]

\* schema.validators[type]
schema_validators_Mut(type) == DefaultValidators[type]

schema_validators(type) == schemaValidators[type]

DefaultMessages ==
  [k \in MessageKeys |->
     IF k = "bits" THEN Undefined ELSE Fun("Messages." \o k)]

(***************************************************************************)
(* Property (part_000).  The registry is a JavaScript object: its keys are *)
(* kept in insertion order, and assigning to an existing key keeps the     *)
(* key's position.  The rule names of the model are not integer-like.      *)
(***************************************************************************)
\* this.name of the modelled property
name == "username"

Entry(type, args, fn) == [name |-> type, args |-> args, fn |-> fn]

\* Object.keys(obj)
Keys(reg) == [i \in 1..Len(reg) |-> reg[i].name]

Has(reg, type) == \E i \in 1..Len(reg) : reg[i].name = type

IndexOf(reg, type) == CHOOSE i \in 1..Len(reg) : reg[i].name = type

\* the key is deleted and added again: an existing key moves to the end
Assign_MoveLast(reg, entry) ==
  Append(SelectSeq(reg, LAMBDA e : e.name # entry.name), entry)

\* obj[key] = val
Assign(reg, entry) ==
  IF Has(reg, entry.name)
  THEN [reg EXCEPT ![IndexOf(reg, entry.name)] = entry]
  ELSE Append(reg, entry)

_register_Mut(reg, type, args, fn) == Append(reg, Entry(type, args, fn))

_register(reg, type, args, fn) == Assign(reg, Entry(type, args, fn))

\* the value validate returns: null, or a ValidationError (message, path);
\* kind "throw" when a call made by validate raised a TypeError
NoError == [kind |-> "null", message |-> Undefined, path |-> Undefined]
ValidationError(message, path) ==
  [kind |-> "error", message |-> message, path |-> path]
TypeError == [kind |-> "throw", message |-> Undefined, path |-> Undefined]

\* a || b || c || d
FirstTruthy(a, b, c, d) ==
  IF Truthy(a) THEN a ELSE IF Truthy(b) THEN b ELSE IF Truthy(c) THEN c ELSE d

_error_Mut(msgs, smsgs, type, ctx, args, path) ==
  LET message == FirstTruthy(msgs[type], smsgs[type],
                             msgs["default"], smsgs["default"])
  IN  ValidationError(
        IF message.t = "function"
        THEN CallMessage(message, <<path, ctx>> \o args)
        ELSE message,
        path)

_error(msgs, smsgs, type, ctx, args, path) ==
  LET message == FirstTruthy(msgs[type], msgs["default"],
                             smsgs[type], smsgs["default"])
  IN  ValidationError(
        IF message.t = "function"
        THEN CallMessage(message, <<path, ctx>> \o args)
        ELSE message,
        path)

\* the static arguments of the rule as _error leaves them
_errorArgs(msgs, smsgs, type, ctx, args, path) ==
  LET message == FirstTruthy(msgs[type], msgs["default"],
                             smsgs[type], smsgs["default"])
  IN  IF message.t = "function"
      THEN CallMessageArgs(message, <<path, ctx>> \o args)
      ELSE args

\* one validator invocation, as observed: the rule, the function invoked,
\* the actual arguments and the result
Call(type, validator, argv, valid) ==
  [type |-> type, validator |-> validator, argv |-> argv, valid |-> valid]

RunResult(calls, err) == [calls |-> calls, err |-> err]

_run_Mut(reg, msgs, smsgs, type, value, ctx, path) ==
  IF ~Has(reg, type) THEN RunResult(<<>>, NoError)
  ELSE LET args == reg[IndexOf(reg, type)].args
           fn == reg[IndexOf(reg, type)].fn
           validator == IF Truthy(fn) THEN fn ELSE schema_validators(type)
           argv == <<value, ctx, path>> \o args
       IN  IF validator.t # "function"
           THEN RunResult(<<>>, TypeError)
           ELSE LET valid == CallValidator(validator, argv)
                IN  RunResult(<<Call(type, validator, argv, valid)>>,
                              IF ~valid
                              THEN _error(msgs, smsgs, type, ctx, args, path)
                              ELSE NoError)

\* the schema's validator preferred to the function given to use
_run_SchemaFirst(reg, msgs, smsgs, type, value, ctx, path) ==
  IF ~Has(reg, type) THEN RunResult(<<>>, NoError)
  ELSE LET args == reg[IndexOf(reg, type)].args
           fn == reg[IndexOf(reg, type)].fn
           validator == IF Truthy(schema_validators(type))
                        THEN schema_validators(type) ELSE fn
           argv == <<value, ctx>> \o args \o <<path>>
       IN  IF validator.t # "function"
           THEN RunResult(<<>>, TypeError)
           ELSE LET valid == CallValidator(validator, argv)
                IN  RunResult(<<Call(type, validator, argv, valid)>>,
                              IF ~valid
                              THEN _error(msgs, smsgs, type, ctx, args, path)
                              ELSE NoError)

_run(reg, msgs, smsgs, type, value, ctx, path) ==
  IF ~Has(reg, type) THEN RunResult(<<>>, NoError)
  ELSE LET args == reg[IndexOf(reg, type)].args
           fn == reg[IndexOf(reg, type)].fn
           validator == IF Truthy(fn) THEN fn ELSE schema_validators(type)
           argv == <<value, ctx>> \o args \o <<path>>
       IN  IF validator.t # "function"
           THEN RunResult(<<>>, TypeError)
           ELSE LET valid == CallValidator(validator, argv)
                IN  RunResult(<<Call(type, validator, argv, valid)>>,
                              IF ~valid
                              THEN _error(msgs, smsgs, type, ctx, args, path)
                              ELSE NoError)

\* the loop of validate over types[i..]: stops at the first rule that
\* yields an error (or throws)
RECURSIVE validateFrom(_, _, _, _, _, _, _, _)
validateFrom(i, types, reg, msgs, smsgs, value, ctx, path) ==
  IF i > Len(types) THEN RunResult(<<>>, NoError)
  ELSE LET r == _run(reg, msgs, smsgs, types[i], value, ctx, path)
       IN  IF r.err.kind # "null" THEN r
           ELSE LET rest == validateFrom(i + 1, types, reg, msgs, smsgs,
                                         value, ctx, path)
                IN  RunResult(r.calls \o rest.calls, rest.err)

\* a loop that collects every rule's outcome and reports the first error
RECURSIVE validateAll(_, _, _, _, _, _, _, _)
validateAll(i, types, reg, msgs, smsgs, value, ctx, path) ==
  IF i > Len(types) THEN RunResult(<<>>, NoError)
  ELSE LET r == _run(reg, msgs, smsgs, types[i], value, ctx, path)
           rest == validateAll(i + 1, types, reg, msgs, smsgs, value, ctx, path)
       IN  RunResult(r.calls \o rest.calls,
                     IF r.err.kind # "null" THEN r.err ELSE rest.err)

validate_Mut(reg, msgs, smsgs, value, ctx, path) ==
  validateAll(1, Keys(reg), reg, msgs, smsgs, value, ctx,
              IF path = Undefined THEN Str(name) ELSE path)

\* validate(value, ctx, path = this.name)
validate(reg, msgs, smsgs, value, ctx, path) ==
  validateFrom(1, Keys(reg), reg, msgs, smsgs, value, ctx,
               IF path = Undefined THEN Str(name) ELSE path)

\* the registry as validate leaves it: the static arguments of the rule that
\* failed were handed to the message generator
registryAfter(reg, msgs, smsgs, value, ctx, path) ==
  LET r == validate(reg, msgs, smsgs, value, ctx, path)
  IN  IF r.err.kind # "error" THEN reg
      ELSE LET i == IndexOf(reg, r.calls[Len(r.calls)].type)
           IN  [reg EXCEPT ![i].args =
                  _errorArgs(msgs, smsgs, reg[i].name, ctx, reg[i].args, path)]

\* the loop of use over the keys of fns: fns[i] is (key, items), items
\* being the array given for the key, or [fn] for a bare function
RECURSIVE useFrom(_, _, _)
useFrom(i, fns, reg) ==
  IF i > Len(fns) THEN reg
  ELSE LET arr == fns[i].items
           fn == IF arr = <<>> THEN Undefined ELSE Head(arr)
           args == IF arr = <<>> THEN <<>> ELSE Tail(arr)
       IN  useFrom(i + 1, fns, _register(reg, fns[i].key, args, fn))

use(reg, fns) == useFrom(1, fns, reg)

\* the loop of message over Object.entries(messages)
RECURSIVE messageFrom(_, _, _)
messageFrom(i, entries, msgs) ==
  IF i > Len(entries) THEN msgs
  ELSE messageFrom(i + 1, entries,
                   [msgs EXCEPT ![entries[i].key] = entries[i].val])

KeyVal(key, val) == [key |-> key, val |-> val]

\* the argument is a string (t = "string") or an object (t = "object")
message(msgs, arg) ==
  LET entries == IF arg.t = "string"
                 THEN <<KeyVal("default", Str(arg.s))>>
                 ELSE arg.entries
  IN  messageFrom(1, entries, msgs)

(***************************************************************************)
(* Inputs of the operations.                                               *)
(***************************************************************************)
RequiredArgs == {Undefined, Bool(TRUE), Bool(FALSE)}

TypeArgs == {Fun("String"), Str("number")}

LengthArgs == {MinMax(<<3>>, <<5>>)}

FnsItem(key, items) == [key |-> key, items |-> items]

UseArgs ==
  { <<FnsItem("bits", <<Fun("bitsFn"), Num(2)>>)>>,
    <<FnsItem("bits", <<Fun("rejectFn")>>)>> }

MessagesArg(t, str, entries) == [t |-> t, s |-> str, entries |-> entries]

MessageArgs ==
  { MessagesArg("string", "Something is wrong.", <<>>),
    MessagesArg("object", "", <<KeyVal("bits", Fun("describeMessage"))>>) }

SchemaMessageArgs ==
  { MessagesArg("object", "", <<KeyVal("bits", Fun("bitsMessage"))>>) }

Values == {Undefined, Str("ab"), Str("abcd"), Num(2)}

\* (ctx, path) of a validate call; an undefined path is an omitted one
Contexts ==
  { <<Obj("ctx1"), Undefined>>, <<Obj("ctx2"), Str("users.0.username")>> }

(***************************************************************************)
(* The state machine of one property and its schema's message registry.    *)
(*                                                                         *)
(* last is the most recent call as its caller observes it: the operation,  *)
(* its arguments, the validator invocations it made, what it returned and, *)
(* for a rule call, whether the rule name was in the registry before.      *)
(* registered is a history variable: the rule names in the order of their  *)
(* first registration.                                                     *)
(***************************************************************************)
Last(op, argv, calls, ret, replaced) ==
  [op |-> op, argv |-> argv, calls |-> calls, ret |-> ret,
   replaced |-> replaced]

Idle == Last("none", <<>>, <<>>, NoError, FALSE)

NoProbe == Probe("none", Undefined, Undefined, FALSE)

\* custom is a history variable: for each rule name, whether its latest
\* registration was made by use, and with which function and static
\* arguments
Custom(set, fn, args) == [set |-> set, fn |-> fn, args |-> args]

NoCustom == Custom(FALSE, Undefined, <<>>)

RECURSIVE customFrom(_, _, _)
customFrom(i, fns, cus) ==
  IF i > Len(fns) THEN cus
  ELSE LET arr == fns[i].items
       IN  customFrom(i + 1, fns,
             [cus EXCEPT ![fns[i].key] =
                Custom(TRUE, IF arr = <<>> THEN Undefined ELSE Head(arr),
                       IF arr = <<>> THEN <<>> ELSE Tail(arr))])

\* the initial values of the variables in extVars
\* a call that defined paths on the schema: the method, the property's name,
\* the [key, rules] pairs it was given and the definitions before the call
Def(op, nm, args, before) ==
  [op |-> op, name |-> nm, args |-> args, before |-> before]
NoDef == Def("none", Undefined, <<>>, <<>>)

\* names of types and keys of the typecaster registry
TypeKeys == {"string", "String", "Car"}
\* the registry is seeded with the built-in casters, keyed in lower case
DefaultTypecasters ==
  [k \in TypeKeys |-> IF k = "string" THEN Fun("Typecasters.string") ELSE Undefined]

\* the outcome of a typecast: thrown or returned value, the keys looked up in
\* the registry, the caster applied, and this._type after the call
CastResult(thrown, val, lookups, caster, type) ==
  [thrown |-> thrown, val |-> val, lookups |-> lookups, caster |-> caster,
   type |-> type]
\* a typecast call: the declared type and the registry it ran with, the value
\* and the outcome
Cast(op, type, casters, value, res) ==
  [op |-> op, type |-> type, casters |-> casters, value |-> value, res |-> res]
NoCast ==
  Cast("none", Null, DefaultTypecasters, Undefined,
       CastResult(FALSE, Undefined, <<>>, Undefined, Null))

\* an enumerate call: the path, the object and the callbacks it made
Enum(op, path, obj, calls) ==
  [op |-> op, path |-> path, obj |-> obj, calls |-> calls]
NoEnum == Enum("none", "", Undefined, <<>>)

\* a walk call: the object, the callback and the callbacks it made
Walk(op, obj, callback, visits) ==
  [op |-> op, obj |-> obj, callback |-> callback, visits |-> visits]
NoWalk == Walk("none", Undefined, [accept |-> {}], <<>>)

\* a Schema.validate or Schema.assert call: the object and the options given,
\* the errors returned, the object afterwards, and what was thrown
Check(op, obj, opts, errors, after, thrown, msg) ==
  [op |-> op, obj |-> obj, opts |-> opts, errors |-> errors, after |-> after,
   thrown |-> thrown, message |-> msg]
NoCheck ==
  Check("none", Undefined, [strip |-> TRUE, strict |-> FALSE], <<>>, Undefined,
        FALSE, Undefined)

InitExt ==
  /\ lastCheck = NoCheck
  /\ lastEnum = NoEnum
  /\ lastWalk = NoWalk
  /\ held = <<>>
  /\ made = <<>>
  /\ other = <<>>
  /\ shared = {}
  /\ typecasters = DefaultTypecasters
  /\ lastCast = NoCast
  /\ schemaValidators = DefaultValidators
  /\ custom = [k \in RuleNames |-> NoCustom]
  /\ schemaProps = <<>>
  /\ lastDef = NoDef

Init ==
  /\ registry = <<>>
  /\ _type = Null
  /\ messages = [k \in MessageKeys |-> Undefined]
  /\ schemaMessages = DefaultMessages
  /\ last = Idle
  /\ registered = <<>>
  /\ probe = NoProbe
  /\ InitExt

\* the registry may take the rule: it has it already, or has room
Room(type) == Has(registry, type) \/ Len(registry) < MaxRules

InSeq(seq, x) == \E i \in 1..Len(seq) : seq[i] = x

RECURSIVE FirstSeen(_, _, _)
FirstSeen(i, names, order) ==
  IF i > Len(names) THEN order
  ELSE FirstSeen(i + 1, names,
                 IF InSeq(order, names[i]) THEN order
                 ELSE Append(order, names[i]))

Property_required(bool) ==
  /\ Room("required")
  /\ registry' = _register(registry, "required",
                           <<IF bool = Undefined THEN Bool(TRUE) ELSE bool>>,
                           Undefined)
  /\ last' = Last("required", <<bool>>, <<>>, NoError, Has(registry, "required"))
  /\ registered' = FirstSeen(1, <<"required">>, registered)
  /\ custom' = [custom EXCEPT !["required"] = NoCustom]
  /\ UNCHANGED <<schemaValidators, auxVars>>
  /\ UNCHANGED <<_type, messages, schemaMessages, probe>>

Property_type(type) ==
  /\ Room("type")
  /\ _type' = type
  /\ registry' = _register(registry, "type", <<type>>, Undefined)
  /\ last' = Last("type", <<type>>, <<>>, NoError, Has(registry, "type"))
  /\ registered' = FirstSeen(1, <<"type">>, registered)
  /\ custom' = [custom EXCEPT !["type"] = NoCustom]
  /\ UNCHANGED <<schemaValidators, auxVars>>
  /\ UNCHANGED <<messages, schemaMessages, probe>>

Property_length(rules) ==
  /\ Room("length")
  /\ registry' = _register(registry, "length", <<rules>>, Undefined)
  /\ last' = Last("length", <<rules>>, <<>>, NoError, Has(registry, "length"))
  /\ registered' = FirstSeen(1, <<"length">>, registered)
  /\ custom' = [custom EXCEPT !["length"] = NoCustom]
  /\ UNCHANGED <<schemaValidators, auxVars>>
  /\ UNCHANGED <<_type, messages, schemaMessages, probe>>

Property_enum(enums) ==
  /\ Room("enum")
  /\ registry' = _register(registry, "enum", <<enums>>, Undefined)
  /\ last' = Last("enum", <<enums>>, <<>>, NoError, Has(registry, "enum"))
  /\ registered' = FirstSeen(1, <<"enum">>, registered)
  /\ custom' = [custom EXCEPT !["enum"] = NoCustom]
  /\ UNCHANGED <<schemaValidators, auxVars>>
  /\ UNCHANGED <<_type, messages, schemaMessages, probe>>

Property_use(fns) ==
  /\ Len(use(registry, fns)) <= MaxRules
  /\ registry' = use(registry, fns)
  /\ last' = Last("use", <<>>, <<>>, NoError,
                  \E i \in 1..Len(fns) : Has(registry, fns[i].key))
  /\ registered' = FirstSeen(1, [i \in 1..Len(fns) |-> fns[i].key], registered)
  /\ custom' = customFrom(1, fns, custom)
  /\ UNCHANGED <<schemaValidators, auxVars>>
  /\ UNCHANGED <<_type, messages, schemaMessages, probe>>

Property_message(msgs) ==
  /\ messages' = message(messages, msgs)
  /\ last' = Idle
  /\ UNCHANGED <<registry, _type, schemaMessages, registered, probe, extVars>>

Schema_message(msgs) ==
  /\ schemaMessages' = messageFrom(1, msgs.entries, schemaMessages)
  /\ last' = Idle
  /\ UNCHANGED <<registry, _type, messages, registered, probe, extVars>>

Property_validate(value, ctx, path) ==
  /\ LET r == validate(registry, messages, schemaMessages, value, ctx, path)
     IN  last' = Last("validate", <<value, ctx, path>>, r.calls, r.err, FALSE)
  /\ registry' = registryAfter(registry, messages, schemaMessages, value, ctx,
                               path)
  /\ UNCHANGED <<_type, messages, schemaMessages, registered, probe, extVars>>

Next ==
  \/ \E bool \in RequiredArgs : Property_required(bool)
  \/ \E type \in TypeArgs : Property_type(type)
  \/ \E rules \in LengthArgs : Property_length(rules)
  \/ \E fns \in UseArgs : Property_use(fns)
  \/ \E msgs \in MessageArgs : Property_message(msgs)
  \/ \E msgs \in SchemaMessageArgs : Schema_message(msgs)
  \/ \E value \in Values, c \in Contexts : Property_validate(value, c[1], c[2])

Spec == Init /\ [][Next]_vars

InitValidators ==
  /\ registry = <<>>
  /\ _type = Null
  /\ messages = [k \in MessageKeys |-> Undefined]
  /\ schemaMessages = DefaultMessages
  /\ last = Idle
  /\ registered = <<>>
  /\ probe \in {Probe("none", value, Undefined, FALSE) : value \in ProbeValues}
  /\ InitExt

NextValidators ==
  \/ CallRequired
  \/ CallType
  \/ CallLength
  \/ CallSize

SpecValidators == InitValidators /\ [][NextValidators]_vars

(***************************************************************************)
(* Properties of Property.validate.                                        *)
(***************************************************************************)
Validated == last.op = "validate"

\* the value, ctx and effective path of the validate call in last
ValueOf == last.argv[1]
CtxOf == last.argv[2]
PathOf == IF last.argv[3] = Undefined THEN Str(name) ELSE last.argv[3]

EntryOf(type) == registry[IndexOf(registry, type)]

\* the rule whose validator was invoked last
FailedRule == last.calls[Len(last.calls)].type

\* C1: validate runs the rules in the order of their registration and stops
\* at the first rule whose validator returns falsy: the validators invoked
\* are those of a prefix of the registered rules, all but the last one
\* passed, a failing one is the last one invoked and validate returns its
\* error; when none fails every rule was run and validate returns null.
C1_FirstFailureWins ==
  Validated =>
    LET calls == last.calls
        n == Len(calls)
    IN  /\ n <= Len(registered)
        /\ \A i \in 1..n : calls[i].type = registered[i]
        /\ \A i \in 1..n : i < n => calls[i].valid
        /\ IF n > 0 /\ ~calls[n].valid
           THEN /\ last.ret.kind = "error"
                /\ last.ret = _error(messages, schemaMessages, calls[n].type,
                                     CtxOf, EntryOf(calls[n].type).args, PathOf)
           ELSE /\ n = Len(registered)
                /\ last.ret = NoError

\* a validate call whose first rule failed although a later rule would
\* have failed as well
C1_Witness ==
  /\ Validated
  /\ Len(registry) >= 2
  /\ Len(last.calls) = 1
  /\ ~last.calls[1].valid
  /\ last.ret.kind = "error"
  /\ \E i \in 2..Len(registry) :
       LET e == registry[i]
           validator == IF Truthy(e.fn) THEN e.fn ELSE schema_validators(e.name)
       IN  ~CallValidator(validator, <<ValueOf, CtxOf>> \o e.args \o <<PathOf>>)

\* the rule accepts the value: its validator, called as the validator
\* contract says, returns true
Accepts(e, value, ctx, path) ==
  CallValidator(IF Truthy(e.fn) THEN e.fn ELSE schema_validators(e.name),
                <<value, ctx>> \o e.args \o <<path>>)

\* C2: validate returns null when the registry is empty and when every
\* registered rule accepts the value.
C2_NullWhenNoRuleFails ==
  (Validated /\ \A i \in 1..Len(registry) :
                  Accepts(registry[i], ValueOf, CtxOf, PathOf))
    => last.ret = NoError

\* two or more rules were run, the required rule among them with argument
\* false on an absent value, and validate returned null
C2_Witness ==
  /\ Validated
  /\ Len(registry) >= 2
  /\ Len(last.calls) = Len(registry)
  /\ ValueOf = Undefined
  /\ Has(registry, "required")
  /\ last.ret = NoError

\* the number of registry entries under a rule name
Count(type) == Cardinality({i \in 1..Len(registry) : registry[i].name = type})

\* C3: registering a rule name again replaces the registration: the
\* registry never holds two entries of one name, and after a call of
\* required, type or length the single entry of that name carries the
\* argument of that call (true for required() without argument).
C3_ReplaceNotStack ==
  /\ \A i, j \in 1..Len(registry) :
       registry[i].name = registry[j].name => i = j
  /\ last.op \in {"required", "type", "length"} =>
       /\ Count(last.op) = 1
       /\ EntryOf(last.op).args =
            IF last.op = "required" /\ last.argv = <<Undefined>>
            THEN <<Bool(TRUE)>>
            ELSE last.argv

\* required(false) has just replaced an earlier registration of required,
\* next to another rule
C3_Witness ==
  /\ last.op = "required"
  /\ last.replaced
  /\ last.argv = <<Bool(FALSE)>>
  /\ Len(registry) >= 2
  /\ Accepts(EntryOf("required"), Undefined, Obj("ctx1"), Str(name))

(***************************************************************************)
(* Properties of the built-in validators.                                  *)
(***************************************************************************)
\* C4: required with argument true fails exactly for null, undefined and
\* the empty string; with argument false it passes for every value.
C4_Required ==
  probe.name = "required" =>
    IF probe.arg = Bool(TRUE)
    THEN ~probe.ret <=> probe.value \in {Null, Undefined, Str("")}
    ELSE probe.ret

\* required(true) was applied to the empty string and failed
C4_Witness ==
  /\ probe.name = "required"
  /\ probe.arg = Bool(TRUE)
  /\ probe.value = Str("")
  /\ ~probe.ret

\* C5: type passes for every null or undefined value; for a present value
\* it passes exactly when the value's constructor is T (T a function) or
\* the value's structural type name is T (T a string).
C5_Type ==
  probe.name = "type" =>
    IF probe.value \in {Null, Undefined}
    THEN probe.ret
    ELSE IF probe.arg.t = "function"
    THEN probe.ret <=> Constructor(probe.value) = probe.arg
    ELSE probe.ret <=> typeOf(probe.value).s = probe.arg.s

\* type(Number) was applied to an absent value and passed
C5_Witness ==
  /\ probe.name = "type"
  /\ probe.arg = Fun("Number")
  /\ probe.value = Undefined
  /\ probe.ret

\* the length of a string or an array
HasLength(v) == v.t \in {"string", "array"}
Length(v) == IF v.t = "string" THEN Len(v.s) ELSE Len(v.a)

\* C6: for a present value, length with {min, max} passes exactly when
\* (min is omitted or value.length >= min) and (max is omitted or
\* value.length <= max), for every bound from 0 on; with a bare number n it
\* passes exactly when value.length = n.
C6_Length ==
  (probe.name = "length" /\ HasLength(probe.value)) =>
    IF probe.arg.t = "number"
    THEN probe.ret <=> Length(probe.value) = probe.arg.n
    ELSE probe.ret <=>
           /\ probe.arg.min = <<>> \/ Length(probe.value) >= probe.arg.min[1]
           /\ probe.arg.max = <<>> \/ Length(probe.value) <= probe.arg.max[1]

\* C7: for a present number, size with {min, max} passes exactly when (min
\* is omitted or value >= min) and (max is omitted or value <= max), for
\* every integer bound, 0 and negative ones included; with a bare number n
\* it passes exactly when value = n.
C7_Size ==
  (probe.name = "size" /\ probe.value.t = "number") =>
    IF probe.arg.t = "number"
    THEN probe.ret <=> probe.value.n = probe.arg.n
    ELSE probe.ret <=>
           /\ probe.arg.min = <<>> \/ probe.value.n >= probe.arg.min[1]
           /\ probe.arg.max = <<>> \/ probe.value.n <= probe.arg.max[1]

\* size({max: 0}) was applied to 1 and failed
C7_Witness ==
  /\ probe.name = "size"
  /\ probe.arg = MinMax(<<>>, <<0>>)
  /\ probe.value = Num(1)
  /\ ~probe.ret

(***************************************************************************)
(* Properties of the errors validate returns.                              *)
(***************************************************************************)
\* the property of the scenario: type String, required true and
\* length {min: 3, max: 5}, registered in that order, no message overridden
ScenarioProperty ==
  /\ registry = << Entry("type", <<Fun("String")>>, Undefined),
                   Entry("required", <<Bool(TRUE)>>, Undefined),
                   Entry("length", <<MinMax(<<3>>, <<5>>)>>, Undefined) >>
  /\ \A k \in MessageKeys : messages[k] = Undefined
  /\ schemaMessages = DefaultMessages

\* C8: on the scenario property an absent value yields the error of the
\* required rule, with the default required message and the path; "ab"
\* yields the error of the length rule with the default length message;
\* "abcd" yields no error.
C8_Scenario ==
  (ScenarioProperty /\ Validated) =>
    /\ ValueOf = Undefined =>
         /\ FailedRule = "required"
         /\ last.ret = ValidationError(
                         Str(PathOf.s \o " obyazatelnyy parametr."), PathOf)
    /\ ValueOf = Str("ab") =>
         /\ FailedRule = "length"
         /\ last.ret = ValidationError(
                         Str(PathOf.s \o " dolzhen imet dlinu mezhdu 3 i 5."),
                         PathOf)
    /\ ValueOf = Str("abcd") => last.ret = NoError

\* "ab" was validated on the scenario property at the path "username"
C8_Witness ==
  /\ ScenarioProperty
  /\ Validated
  /\ ValueOf = Str("ab")
  /\ last.ret.kind = "error"
  /\ last.ret.path = Str("username")

\* the first defined message of the lookup order of a failing rule
ChosenMessage(type) ==
  IF messages[type] # Undefined THEN messages[type]
  ELSE IF messages["default"] # Undefined THEN messages["default"]
  ELSE IF schemaMessages[type] # Undefined THEN schemaMessages[type]
  ELSE schemaMessages["default"]

C10_ValidatorArguments ==
  Validated =>
    \A i \in 1..Len(last.calls) :
      LET c == last.calls[i]
          e == EntryOf(c.type)
      IN  /\ c.validator = IF Truthy(e.fn) THEN e.fn
                           ELSE schema_validators(c.type)
          /\ c.argv = <<ValueOf, CtxOf>> \o e.args \o <<PathOf>>
          /\ c.argv[Len(c.argv)] = PathOf
          /\ c.argv[2] = last.argv[2]

\* a validator with a static argument was invoked for an explicit path
C10_Witness ==
  /\ Validated
  /\ last.argv[3] = Str("users.0.username")
  /\ \E i \in 1..Len(last.calls) :
       /\ Len(last.calls[i].argv) = 4
       /\ last.calls[i].argv[3] = Num(2)
       /\ last.calls[i].argv[4] = Str("users.0.username")

(***************************************************************************)
(* Custom validators and the schema's validator registry: a property with  *)
(* rules registered by required() and by use, on a schema whose validators *)
(* are overridden.                                                         *)
(***************************************************************************)
\* use with the name of a built-in rule and with a rule name of its own
UseOverrideArgs ==
  { <<FnsItem("required", <<Fun("acceptFn")>>)>>,
    <<FnsItem("required", <<Fun("bitsFn"), Num(2)>>)>>,
    <<FnsItem("bits", <<Fun("bitsFn"), Num(4)>>)>>,
    <<FnsItem("bits", <<Fun("rejectFn")>>)>> }

\* schema.validator('required', val => val != null) and a schema-level
\* validator for the rule name bits
SchemaValidatorArgs ==
  { <<KeyVal("required", Fun("notNullFn"))>>,
    <<KeyVal("bits", Fun("acceptFn"))>> }

Schema_validator(fns) ==
  /\ schemaValidators' = messageFrom(1, fns, schemaValidators)
  /\ last' = Idle
  /\ UNCHANGED <<registry, _type, messages, schemaMessages, registered, probe,
                 custom, auxVars>>

UseValues == {Undefined, Str(""), Str("ab"), Str("abcd")}

NextUse ==
  \/ \E bool \in {Bool(TRUE)} : Property_required(bool)
  \/ \E type \in {Fun("String")} : Property_type(type)
  \/ \E fns \in UseOverrideArgs : Property_use(fns)
  \/ \E fns \in SchemaValidatorArgs : Schema_validator(fns)
  \/ \E value \in UseValues, c \in Contexts : Property_validate(value, c[1], c[2])

SpecUse == Init /\ [][NextUse]_vars

MaxProps == 2
\* the array given to elements has at most MaxElems elements
MaxElems == 2

\* the path comes first, the prefix second
join_Mut(path, prefix) ==
  IF Truthy(prefix)
  THEN Str(Template(path) \o "." \o Template(prefix))
  ELSE path

\* prefix ? `${prefix}.${path}` : path
join(path, prefix) ==
  IF Truthy(prefix)
  THEN Str(Template(prefix) \o "." \o Template(path))
  ELSE path

\* a plain object with the given [key, val] entries, in insertion order
Dict(entries) == JsVal("object", FALSE, 0, "", entries, <<>>, <<>>)

\* a rules object { type: T }
Rules(T) == Dict(<<KeyVal("type", Fun(T))>>)
RulesArgs == {Rules("Number"), Rules("String")}

PropDef(path, rules) == [path |-> path, rules |-> rules]
HasPath(props, path) == \E i \in 1..Len(props) : props[i].path = path
RulesAt(props, path) ==
  IF HasPath(props, path)
  THEN (CHOOSE e \in {props[i] : i \in 1..Len(props)} : e.path = path).rules
  ELSE Undefined

\* schema.path(path, rules): the property at the path (created at the end of
\* the mapping when it is new) takes the rules; the key of the mapping is
\* the path as a string
schema_path(props, path, rules) ==
  LET key == Template(path)
  IN  IF HasPath(props, key)
      THEN [i \in 1..Len(props) |->
              IF props[i].path = key THEN PropDef(key, rules) ELSE props[i]]
      ELSE Append(props, PropDef(key, rules))

\* each(rules)
each(props, nm, rules) == schema_path(props, join(Str("$"), nm), rules)

\* every element is registered under index 0
RECURSIVE elementsFrom_Mut(_, _, _, _)
elementsFrom_Mut(i, arr, nm, props) ==
  IF i > Len(arr) THEN props
  ELSE elementsFrom_Mut(i + 1, arr, nm,
                        schema_path(props, join(Num(0), nm), arr[i]))

\* arr.forEach((rules, i) => ...): arr[i] holds the element of index i - 1
RECURSIVE elementsFrom(_, _, _, _)
elementsFrom(i, arr, nm, props) ==
  IF i > Len(arr) THEN props
  ELSE elementsFrom(i + 1, arr, nm,
                    schema_path(props, join(Num(i - 1), nm), arr[i]))

elements(props, nm, arr) == elementsFrom(1, arr, nm, props)

\* the rules are registered at the key alone
RECURSIVE propertiesFrom_Mut(_, _, _, _)
propertiesFrom_Mut(i, entries, nm, props) ==
  IF i > Len(entries) THEN props
  ELSE propertiesFrom_Mut(i + 1, entries, nm,
                          schema_path(props, Str(entries[i].key), entries[i].val))

\* for (const [prop, rule] of Object.entries(props))
RECURSIVE propertiesFrom(_, _, _, _)
propertiesFrom(i, entries, nm, props) ==
  IF i > Len(entries) THEN props
  ELSE propertiesFrom(i + 1, entries, nm,
                      schema_path(props, join(Str(entries[i].key), nm),
                                  entries[i].val))

properties(props, nm, entries) == propertiesFrom(1, entries, nm, props)

\* names of the properties the methods are called on
PropNames == {Str("items"), Str("user")}
\* keys of the object given to properties; type is also the name of a rule
PropKeys == {"id", "type"}

ElementsArgs == UNION {[1..n -> RulesArgs] : n \in 0..MaxElems}
PropertiesArgs ==
  {<<>>} \cup {<<KeyVal(k, r)>> : k \in PropKeys, r \in RulesArgs}
         \cup {e \in {<<KeyVal(k1, r1), KeyVal(k2, r2)>> :
                         k1 \in PropKeys, k2 \in PropKeys,
                         r1 \in RulesArgs, r2 \in RulesArgs} :
                 e[1].key # e[2].key}
PathArgs == {Str("items.$"), Str("items.0"), Str("user.id")}

Indexed(arr) == [i \in 1..Len(arr) |-> KeyVal(ToString(i - 1), arr[i])]

Defines(op, nm, args, props) ==
  /\ Len(props) <= MaxProps
  /\ schemaProps' = props
  /\ lastDef' = Def(op, nm, args, schemaProps)
  /\ lastCheck' = NoCheck
  /\ UNCHANGED <<propVars, probe, schemaValidators, custom, castVars,
                 enumVars, shareVars>>

Property_each(nm, rules) ==
  Defines("each", nm, <<KeyVal("$", rules)>>, each(schemaProps, nm, rules))

Property_elements(nm, arr) ==
  Defines("elements", nm, Indexed(arr), elements(schemaProps, nm, arr))

Property_properties(nm, entries) ==
  Defines("properties", nm, entries, properties(schemaProps, nm, entries))

Schema_path(path, rules) ==
  Defines("path", Undefined, <<KeyVal(path.s, rules)>>,
          schema_path(schemaProps, path, rules))

NextPaths ==
  \/ \E nm \in PropNames, rules \in RulesArgs : Property_each(nm, rules)
  \/ \E nm \in PropNames, arr \in ElementsArgs : Property_elements(nm, arr)
  \/ \E nm \in PropNames, entries \in PropertiesArgs :
       Property_properties(nm, entries)
  \/ \E path \in PathArgs, rules \in RulesArgs : Schema_path(path, rules)

SpecPaths == Init /\ [][NextPaths]_vars

\* every path but those of the given set holds the rules it held before the
\* latest call, at its place in the mapping
OtherPathsKept(paths) ==
  /\ Len(lastDef.before) <= Len(schemaProps)
  /\ \A i \in 1..Len(lastDef.before) :
       /\ schemaProps[i].path = lastDef.before[i].path
       /\ schemaProps[i].path \notin paths
            => schemaProps[i].rules = lastDef.before[i].rules
  /\ \A i \in 1..Len(schemaProps) :
       i > Len(lastDef.before) => schemaProps[i].path \in paths

\* C12: after each(rules) on the property named P the schema's definitions
\* are those that schema.path(P + ".$", rules) makes of the definitions
\* before the call: the path P.$ holds the rules, nothing else changed.
C12_EachIsWildcardPath ==
  lastDef.op = "each" =>
    LET P == lastDef.name.s
        rules == lastDef.args[1].val
    IN  /\ schemaProps = schema_path(lastDef.before, Str(P \o ".$"), rules)
        /\ RulesAt(schemaProps, P \o ".$") = rules
        /\ OtherPathsKept({P \o ".$"})

\* each replaced the rules that schema.path had defined for items.$, next to
\* another definition
C12_Witness ==
  /\ lastDef.op = "each"
  /\ lastDef.name = Str("items")
  /\ Len(schemaProps) >= 2
  /\ HasPath(lastDef.before, "items.$")
  /\ RulesAt(lastDef.before, "items.$") # RulesAt(schemaProps, "items.$")

\* C13 (as stated): after elements(arr) on the property named name, the
\* path i + "." + name holds the rules arr[i], for every index i of arr.
C13_ElementsIndexFirst ==
  lastDef.op = "elements" =>
    \A i \in 1..Len(lastDef.args) :
      RulesAt(schemaProps, lastDef.args[i].key \o "." \o lastDef.name.s)
        = lastDef.args[i].val

\* C13 (amended): after elements(arr) on the property with the non-empty
\* name name, the path name + "." + i holds the rules arr[i], for every
\* index i of arr, and all other paths are as before.
C13_ElementsNameFirst ==
  lastDef.op = "elements" =>
    /\ \A i \in 1..Len(lastDef.args) :
         /\ lastDef.args[i].key = ToString(i - 1)
         /\ RulesAt(schemaProps, lastDef.name.s \o "." \o lastDef.args[i].key)
              = lastDef.args[i].val
    /\ OtherPathsKept({lastDef.name.s \o "." \o lastDef.args[i].key :
                         i \in 1..Len(lastDef.args)})

\* elements with two different rules: items.0 and items.1 hold them
C13_Witness ==
  /\ lastDef.op = "elements"
  /\ lastDef.name = Str("items")
  /\ Len(lastDef.args) = 2
  /\ lastDef.args[1].val # lastDef.args[2].val
  /\ RulesAt(schemaProps, "items.0") = lastDef.args[1].val
  /\ RulesAt(schemaProps, "items.1") = lastDef.args[2].val
  /\ ~HasPath(schemaProps, "0.items")

\* C14 (as stated): after properties(props) on the property named name, the
\* path key + "." + name holds the rules props[key], for every key of props.
C14_PropertiesKeyFirst ==
  lastDef.op = "properties" =>
    \A i \in 1..Len(lastDef.args) :
      RulesAt(schemaProps, lastDef.args[i].key \o "." \o lastDef.name.s)
        = lastDef.args[i].val

\* C14 (amended): after properties(props) on the property with the
\* non-empty name name, the path name + "." + key holds the rules
\* props[key], for every key of props, and all other paths are as before.
C14_PropertiesNameFirst ==
  lastDef.op = "properties" =>
    /\ \A i \in 1..Len(lastDef.args) :
         RulesAt(schemaProps, lastDef.name.s \o "." \o lastDef.args[i].key)
           = lastDef.args[i].val
    /\ OtherPathsKept({lastDef.name.s \o "." \o lastDef.args[i].key :
                         i \in 1..Len(lastDef.args)})

\* properties with the keys id and type: user.id and user.type hold the rules
C14_Witness ==
  /\ lastDef.op = "properties"
  /\ lastDef.name = Str("user")
  /\ Len(lastDef.args) = 2
  /\ RulesAt(schemaProps, "user.id") = Rules("Number")
  /\ RulesAt(schemaProps, "user.type") = Rules("String")
  /\ ~HasPath(schemaProps, "id.user")

(***************************************************************************)
(* Typecasting: the declared type is resolved in the schema's typecaster   *)
(* registry.                                                               *)
(***************************************************************************)
\* String.prototype.toLowerCase on the names of the model
toLowerCase(str) ==
  CASE str \in {"String", "STRING", "string"} -> "string"
    [] str \in {"Car", "CAR", "car"} -> "car"
    [] str \in {"Date", "date"} -> "date"
    [] OTHER -> str

\* schema.typecasters[key]
Typecaster(casters, key) ==
  IF key \in DOMAIN casters THEN casters[key] ELSE Undefined

\* cast(value)
CallCaster(cast, value) ==
  CASE cast.s \in {"Typecasters.string", "toText"} -> Str(Template(value))
    [] cast.s = "newCar" -> Obj("Car(" \o Template(value) \o ")")
    [] OTHER -> Undefined

\* an unknown type leaves the value as it is
typecast_Mut(type, casters, value) ==
  IF ~Truthy(type) THEN CastResult(FALSE, value, <<>>, Undefined, type)
  ELSE LET nm == IF type.t = "function" THEN type.s ELSE type.s
           first == Typecaster(casters, nm)
           cast == IF Truthy(first) THEN first
                   ELSE Typecaster(casters, toLowerCase(nm))
           lookups == IF Truthy(first) THEN <<nm>> ELSE <<nm, toLowerCase(nm)>>
       IN  IF cast.t # "function"
           THEN CastResult(FALSE, value, lookups, Undefined, type)
           ELSE CastResult(FALSE, CallCaster(cast, value), lookups, cast, type)

\* the registry is read under the declared name only
typecast_Exact(type, casters, value) ==
  IF ~Truthy(type) THEN CastResult(FALSE, value, <<>>, Undefined, type)
  ELSE LET nm == IF type.t = "function" THEN type.s ELSE type.s
           cast == Typecaster(casters, nm)
       IN  IF cast.t # "function"
           THEN CastResult(TRUE, Undefined, <<nm>>, Undefined, type)
           ELSE CastResult(FALSE, CallCaster(cast, value), <<nm>>, cast, type)

\* the name of the type is stored as the declared type
typecast_Assign(type, casters, value) ==
  IF ~Truthy(type) THEN CastResult(FALSE, value, <<>>, Undefined, type)
  ELSE LET nm == IF type.t = "function" THEN type.s ELSE type.s
           first == Typecaster(casters, nm)
           cast == IF Truthy(first) THEN first
                   ELSE Typecaster(casters, toLowerCase(nm))
           lookups == IF Truthy(first) THEN <<nm>> ELSE <<nm, toLowerCase(nm)>>
       IN  IF cast.t # "function"
           THEN CastResult(TRUE, Undefined, lookups, Undefined, Str(nm))
           ELSE CastResult(FALSE, CallCaster(cast, value), lookups, cast, Str(nm))

\* Property.typecast(value) with this._type = type and
\* this._schema.typecasters = casters; the name of a function (type.name)
\* and a string are both held in the field s.  `type = type.name` assigns to
\* the local variable: the last field of the result is this._type after the
\* call
typecast(type, casters, value) ==
  IF ~Truthy(type) THEN CastResult(FALSE, value, <<>>, Undefined, type)
  ELSE LET nm == IF type.t = "function" THEN type.s ELSE type.s
           first == Typecaster(casters, nm)
           cast == IF Truthy(first) THEN first
                   ELSE Typecaster(casters, toLowerCase(nm))
           lookups == IF Truthy(first) THEN <<nm>> ELSE <<nm, toLowerCase(nm)>>
       IN  IF cast.t # "function"
           THEN CastResult(TRUE, Undefined, lookups, Undefined, type)
           ELSE CastResult(FALSE, CallCaster(cast, value), lookups, cast, type)

\* declared types: constructors and names
CastTypeArgs ==
  {Fun("String"), Str("STRING"), Fun("Car"), Str("car"), Fun("Date")}
\* schema.typecaster({ Car: (val) => new Car(val) }) and an override of String
TypecasterArgs ==
  { <<KeyVal("Car", Fun("newCar"))>>, <<KeyVal("String", Fun("toText"))>> }
CastValues == {Num(2), Str("ab")}

Property_typecast(value) ==
  /\ lastCast' = Cast("typecast", _type, typecasters, value,
                      typecast(_type, typecasters, value))
  /\ _type' = typecast(_type, typecasters, value).type
  /\ UNCHANGED <<registry, messages, schemaMessages, last, registered, probe,
                 schemaValidators, custom, pathVars, typecasters, enumVars, shareVars,
                 checkVars>>

Schema_typecaster(fns) ==
  /\ typecasters' = messageFrom(1, fns, typecasters)
  /\ lastCast' = NoCast
  /\ last' = Idle
  /\ UNCHANGED <<registry, _type, messages, schemaMessages, registered, probe,
                 schemaValidators, custom, pathVars, enumVars, shareVars, checkVars>>

NextTypecast ==
  \/ \E type \in CastTypeArgs : Property_type(type)
  \/ \E fns \in TypecasterArgs : Schema_typecaster(fns)
  \/ \E value \in CastValues : Property_typecast(value)

SpecTypecast == Init /\ [][NextTypecast]_vars

Typecasted == lastCast.op = "typecast"
\* the caster the registry holds for the declared name: under the name or,
\* when there is none, under the name in lower case
Registered(type, casters) ==
  LET nm == type.s
  IN  IF Typecaster(casters, nm).t = "function"
      THEN Typecaster(casters, nm)
      ELSE Typecaster(casters, toLowerCase(nm))
\* the keys of the registry that hold a caster and equal the name but for
\* the case of the letters
SameButCase(type, casters) ==
  {k \in DOMAIN casters :
     casters[k].t = "function" /\ toLowerCase(k) = toLowerCase(type.s)}

\* C15: typecast(value) returns value itself and reads no key of the
\* typecaster registry when the property has no declared type; with a
\* declared type for whose name (as declared or, failing that, in lower
\* case) the registry holds no caster it throws and returns nothing;
\* otherwise it returns the registered caster applied to value.
C15_Typecast ==
  Typecasted =>
    LET res == lastCast.res
    IN  IF lastCast.type = Null
        THEN ~res.thrown /\ res.val = lastCast.value /\ res.lookups = <<>>
        ELSE LET cast == Registered(lastCast.type, lastCast.casters)
             IN  IF cast.t # "function"
                 THEN res.thrown /\ res.val = Undefined
                 ELSE /\ ~res.thrown
                      /\ res.caster = cast
                      /\ res.val = CallCaster(cast, lastCast.value)

\* typecast threw for the declared type Date, which has no caster, on a
\* registry that holds casters for other names
C15_Witness ==
  /\ Typecasted
  /\ lastCast.type = Fun("Date")
  /\ lastCast.casters["Car"] = Fun("newCar")
  /\ lastCast.res.thrown
  /\ lastCast.res.lookups = <<"Date", "date">>

RECURSIVE splitDot(_, _, _)
splitDot(str, i, start) ==
  IF i > Len(str) THEN <<SubSeq(str, start, Len(str))>>
  ELSE IF SubSeq(str, i, i) = "."
       THEN <<SubSeq(str, start, i - 1)>> \o splitDot(str, i + 1, i + 1)
       ELSE splitDot(str, i + 1, start)

\* path.split(/\.\$(?=\.|$)/): the separator is ".$" followed by "." or by
\* the end of the string
RECURSIVE splitWildcard(_, _, _)
splitWildcard(str, i, start) ==
  IF i > Len(str) THEN <<SubSeq(str, start, Len(str))>>
  ELSE IF /\ i + 1 <= Len(str)
          /\ SubSeq(str, i, i + 1) = ".$"
          /\ (i + 1 = Len(str) \/ SubSeq(str, i + 2, i + 2) = ".")
       THEN <<SubSeq(str, start, i - 1)>> \o splitWildcard(str, i + 2, i + 2)
       ELSE splitWildcard(str, i + 1, start)

\* parts.join(sep)
RECURSIVE Joined(_, _)
Joined(parts, sep) ==
  IF parts = <<>> THEN ""
  ELSE IF Len(parts) = 1 THEN parts[1]
  ELSE parts[1] \o sep \o Joined(Tail(parts), sep)

\* o[key] of an object or an array; undefined when there is none
Member(o, key) ==
  CASE o.t = "object" /\ o.s = "" ->
         IF \E i \in 1..Len(o.a) : o.a[i].key = key
         THEN (CHOOSE e \in {o.a[i] : i \in 1..Len(o.a)} : e.key = key).val
         ELSE Undefined
    [] o.t = "array" ->
         IF \E i \in 1..Len(o.a) : ToString(i - 1) = key
         THEN o.a[CHOOSE i \in 1..Len(o.a) : ToString(i - 1) = key]
         ELSE Undefined
    [] OTHER -> Undefined

RECURSIVE Follow(_, _)
Follow(o, segs) ==
  IF segs = <<>> THEN o ELSE Follow(Member(o, Head(segs)), Tail(segs))

\* dot.get(obj, path)
dot_get(obj, path) == Follow(obj, splitDot(path, 1, 1))

\* callback(path, value)
Callback(path, value) == [path |-> path, value |-> value]

\* the callback is made for undefined values only when the path has wildcards
RECURSIVE enumerate_Mut(_, _)
RECURSIVE enumerateFrom_Mut(_, _, _, _, _)
enumerate_Mut(path, obj) ==
  LET split == splitWildcard(path, 1, 1)
      first == Head(split)
      parts == Tail(split)
      arr == dot_get(obj, first)
  IN  IF parts = <<>>
      THEN IF arr = Undefined THEN <<>> ELSE <<Callback(first, arr)>>
      ELSE IF arr.t # "array" THEN <<>>
      ELSE enumerateFrom_Mut(0, arr, first, parts, obj)
enumerateFrom_Mut(i, arr, first, parts, obj) ==
  IF i >= Len(arr.a) THEN <<>>
  ELSE LET current == join(Num(i), Str(first))
           next == Template(current) \o Joined(parts, ".$")
       IN  enumerate_Mut(next, obj)
             \o enumerateFrom_Mut(i + 1, arr, first, parts, obj)

\* enumerate(path, obj, callback): the callbacks made, in order
RECURSIVE enumerate(_, _)
RECURSIVE enumerateFrom(_, _, _, _, _)
enumerate(path, obj) ==
  LET split == splitWildcard(path, 1, 1)
      first == Head(split)
      parts == Tail(split)
      arr == dot_get(obj, first)
  IN  IF parts = <<>> THEN <<Callback(first, arr)>>
      ELSE IF arr.t # "array" THEN <<>>
      ELSE enumerateFrom(0, arr, first, parts, obj)
\* for (let i = 0; i < arr.length; i++)
enumerateFrom(i, arr, first, parts, obj) ==
  IF i >= Len(arr.a) THEN <<>>
  ELSE LET current == join(Num(i), Str(first))
           next == Template(current) \o Joined(parts, ".$")
       IN  enumerate(next, obj) \o enumerateFrom(i + 1, arr, first, parts, obj)

\* objects to enumerate
EnumObjects ==
  { Dict(<<KeyVal("a", Num(1)), KeyVal("extra", Num(2))>>),
    Dict(<<KeyVal("items", Arr(<<Num(1), Str("a")>>))>>),
    Dict(<<KeyVal("a", Dict(<<KeyVal("b", Num(1))>>))>>),
    Dict(<<KeyVal("list", Arr(<<Dict(<<KeyVal("x", Num(1))>>),
                               Dict(<<KeyVal("x", Num(2)), KeyVal("y", Num(0))>>)>>))>>),
    Dict(<<>>),
    Dict(<<KeyVal("items", Arr(<<>>))>>),
    Dict(<<KeyVal("a", Null)>>),
    Dict(<<KeyVal("items", Str("ab"))>>),
    Dict(<<KeyVal("list", Arr(<<Arr(<<Num(1), Num(2)>>), Arr(<<Num(0)>>)>>))>>),
    Dict(<<KeyVal("a", Dict(<<KeyVal("b", Arr(<<Num(1)>>))>>)),
           KeyVal("a$", Str("ab"))>>),
    Dict(<<KeyVal("a", Arr(<<Dict(<<KeyVal("b", Arr(<<Num(1), Num(2)>>))>>),
                            Dict(<<KeyVal("b", Arr(<<Num(3)>>))>>),
                            Dict(<<KeyVal("b", Num(4))>>)>>))>>),
    Arr(<<Dict(<<KeyVal("x", Num(1))>>), Dict(<<KeyVal("x", Num(2))>>)>>) }

\* definition paths, as their segments
EnumPaths ==
  { <<"a">>, <<"a", "b">>, <<"extra">>, <<"items">>, <<"items", "0">>,
    <<"items", "2">>, <<"a", "x", "y">>, <<"list", "1", "y">>, <<"a$">>,
    <<"items", "$">>, <<"list", "$", "x">>, <<"list", "$", "$">>,
    <<"a", "$">>, <<"a", "$", "b", "$">>, <<"$">>, <<"$", "x">> }

CallEnumerate(segs, obj) ==
  /\ lastEnum' = Enum("enumerate", Joined(segs, "."), obj,
                      enumerate(Joined(segs, "."), obj))
  /\ UNCHANGED <<propVars, probe, schemaValidators, custom, pathVars, castVars,
                 checkVars, lastWalk, shareVars>>

NextEnumerate == \E segs \in EnumPaths, obj \in EnumObjects : CallEnumerate(segs, obj)

SpecEnumerate == Init /\ [][NextEnumerate]_vars

\* the path of the latest enumerate call, as its segments
EnumSegs == CHOOSE segs \in EnumPaths : Joined(segs, ".") = lastEnum.path
Wildcards(segs) == {i \in 1..Len(segs) : segs[i] = "$"}
\* the value an object holds under a sequence of keys and indices
RECURSIVE ValueAt(_, _)
ValueAt(o, segs) ==
  IF segs = <<>> THEN o
  ELSE IF o.t \notin {"object", "array"} THEN Undefined
  ELSE LET here == IF o.t = "object"
                   THEN {e.val : e \in {x \in {o.a[i] : i \in 1..Len(o.a)} :
                                          x.key = Head(segs)}}
                   ELSE {o.a[i] : i \in {j \in 1..Len(o.a) :
                                           ToString(j - 1) = Head(segs)}}
       IN  IF here = {} THEN Undefined
           ELSE ValueAt(CHOOSE v \in here : TRUE, Tail(segs))

\* C20: enumerate on a path without a wildcard segment makes exactly one
\* callback, with the path itself and the value the object holds at the
\* path; when the object holds nothing there, the one callback has the
\* value undefined.
C20_EnumerateNoWildcard ==
  (lastEnum.op = "enumerate" /\ Wildcards(EnumSegs) = {}) =>
    /\ Len(lastEnum.calls) = 1
    /\ lastEnum.calls[1].path = lastEnum.path
    /\ lastEnum.calls[1].value = ValueAt(lastEnum.obj, EnumSegs)

\* a path of three segments that leads nowhere in the object got its one
\* callback, with undefined
C20_Witness ==
  /\ lastEnum.op = "enumerate"
  /\ lastEnum.path = "a.x.y"
  /\ lastEnum.obj = Dict(<<KeyVal("a", Dict(<<KeyVal("b", Num(1))>>))>>)
  /\ lastEnum.calls = <<Callback("a.x.y", Undefined)>>

(***************************************************************************)
(* enumerate on paths with wildcard segments.  The expected callbacks are  *)
(* stated segment by segment on the object, independently of the string    *)
(* splitting that enumerate does.                                          *)
(***************************************************************************)
\* the concrete forms of a sequence of segments in an object: every `$` is
\* replaced by each index of the array found at its position; a position
\* that holds no array has no concrete form
RECURSIVE Concrete(_, _)
Concrete(o, segs) ==
  IF segs = <<>> THEN {<<>>}
  ELSE IF Head(segs) = "$"
  THEN IF o.t # "array" THEN {}
       ELSE UNION {{<<ToString(i - 1)>> \o r : r \in Concrete(o.a[i], Tail(segs))} :
                     i \in 1..Len(o.a)}
  ELSE {<<Head(segs)>> \o r : r \in Concrete(ValueAt(o, <<Head(segs)>>), Tail(segs))}

\* the branches of a path in an object: a wildcard position and a concrete
\* form of the segments before it
Branches(o, segs) ==
  {b \in Wildcards(segs) \X UNION {Concrete(o, SubSeq(segs, 1, w - 1)) :
                                     w \in Wildcards(segs)} :
     b[2] \in Concrete(o, SubSeq(segs, 1, b[1] - 1))}

\* the callbacks made under a branch: those whose path starts with its
\* concrete segments
Under(calls, prefix) ==
  {i \in 1..Len(calls) :
     LET segs == splitDot(calls[i].path, 1, 1)
     IN  /\ Len(segs) >= Len(prefix)
         /\ SubSeq(segs, 1, Len(prefix)) = prefix}

\* a branch whose prefix holds no array, or an empty one, has no callback
SkipsNonArrays(o, segs, calls) ==
  \A b \in Branches(o, segs) :
    LET found == ValueAt(o, b[2])
    IN  (found.t # "array" \/ found.a = <<>>) => Under(calls, b[2]) = {}

\* every wildcard position of the path holds an array, on every branch
AllArrays(o, segs) ==
  \A b \in Branches(o, segs) : ValueAt(o, b[2]).t = "array"

\* the callbacks of a path, one per combination of indices, in ascending
\* index order with the outer wildcard varying slowest
RECURSIVE Expand(_, _, _)
RECURSIVE ExpandFrom(_, _, _, _)
Expand(o, segs, done) ==
  IF segs = <<>> THEN <<Callback(Joined(done, "."), o)>>
  ELSE IF Head(segs) = "$"
  THEN IF o.t # "array" THEN <<>> ELSE ExpandFrom(1, o, Tail(segs), done)
  ELSE Expand(ValueAt(o, <<Head(segs)>>), Tail(segs), Append(done, Head(segs)))
ExpandFrom(i, o, segs, done) ==
  IF i > Len(o.a) THEN <<>>
  ELSE Expand(o.a[i], segs, Append(done, ToString(i - 1)))
         \o ExpandFrom(i + 1, o, segs, done)

\* the segment `$` is in no path given to the callback
ConcretePaths(calls) ==
  \A i \in 1..Len(calls) :
    LET segs == splitDot(calls[i].path, 1, 1)
    IN  \A j \in 1..Len(segs) : segs[j] # "$"

\* the latest call was an enumerate on a path with a wildcard segment
Wild == lastEnum.op = "enumerate" /\ Wildcards(EnumSegs) # {}
\* the first segment of the path is a key, so every wildcard has segments
\* before it
KeyFirst == 1 \notin Wildcards(EnumSegs)

\* C21: enumerate on a path with a wildcard segment makes no callback for a
\* branch whose already-resolved prefix holds something that is not an array
\* (nothing, null, an object, a string or a number) or holds an empty array.
C21_SkipsNonArrays ==
  Wild => SkipsNonArrays(lastEnum.obj, EnumSegs, lastEnum.calls)

\* the same for the paths whose first segment is a key
SkipsNonArraysAfterKey ==
  (Wild /\ KeyFirst) => SkipsNonArrays(lastEnum.obj, EnumSegs, lastEnum.calls)

\* a.$.b.$ met a number where the third element should hold an array: the
\* other two elements got their callbacks, that branch got none
SkipsNonArraysSeen ==
  /\ lastEnum.path = "a.$.b.$"
  /\ Len(lastEnum.calls) = 3
  /\ Under(lastEnum.calls, <<"a", "2">>) = {}
  /\ ValueAt(lastEnum.obj, <<"a", "2", "b">>) = Num(4)

\* C22: when every wildcard position of the path holds an array, enumerate
\* makes exactly one callback for every combination of indices, in ascending
\* index order with the outer wildcard varying slowest, with the path in
\* which every `$` is replaced by the index and with the value found there.
C22_EveryCombination ==
  (Wild /\ AllArrays(lastEnum.obj, EnumSegs)) =>
    lastEnum.calls = Expand(lastEnum.obj, EnumSegs, <<>>)

\* the same for the paths whose first segment is a key
EveryCombinationAfterKey ==
  (Wild /\ KeyFirst /\ AllArrays(lastEnum.obj, EnumSegs)) =>
    lastEnum.calls = Expand(lastEnum.obj, EnumSegs, <<>>)

\* list.$.$ over [[1, 2], [0]] gave the three combinations in order
EveryCombinationSeen ==
  /\ lastEnum.path = "list.$.$"
  /\ lastEnum.calls = <<Callback("list.0.0", Num(1)), Callback("list.0.1", Num(2)),
                        Callback("list.1.0", Num(0))>>

\* C29: every path that enumerate gives to its callback is concrete: none of
\* its segments is `$`, wherever the wildcards of the definition path are.
C29_ConcretePaths ==
  lastEnum.op = "enumerate" => ConcretePaths(lastEnum.calls)

\* the same for the paths whose first segment is a key
ConcretePathsAfterKey ==
  (lastEnum.op = "enumerate" /\ KeyFirst) => ConcretePaths(lastEnum.calls)

(***************************************************************************)
(* Validation of an object by the schema: every definition path is         *)
(* enumerated in the object and its property validated; paths of the       *)
(* object that the schema does not define are stripped, or reported in     *)
(* strict mode.                                                            *)
(***************************************************************************)
\* a callback of walk that returns true for the prop paths of a set
Accepting(props) == [accept |-> props]
\* callback(newPath, newProp)
CallCallback(callback, path, prop) == Template(prop) \in callback.accept
\* a callback made by walk, and what it returned
Visit(path, prop, ret) == [path |-> path, prop |-> prop, ret |-> ret]

\* a walk that never enters the value of a key
walk_Mut(obj, callback, path, prop) ==
  IF typeOf(obj) # Str("object") THEN <<>>
  ELSE [i \in 1..Len(obj.a) |->
          LET newPath == join(Str(obj.a[i].key), path)
              newProp == join(Str(obj.a[i].key), prop)
          IN  Visit(newPath, newProp, CallCallback(callback, newPath, newProp))]

\* walk(obj, callback, path, prop): the callbacks made, in order
RECURSIVE walk(_, _, _, _)
RECURSIVE walkElements(_, _, _, _, _)
RECURSIVE walkEntries(_, _, _, _, _)

\* the elements are walked under the `$` segment in the path too
RECURSIVE walkElements_Shared(_, _, _, _, _)
walkElements_Shared(i, obj, callback, path, prop) ==
  IF i > Len(obj.a) THEN <<>>
  ELSE walk(obj.a[i], callback, join(Str("$"), path), join(Str("$"), prop))
         \o walkElements_Shared(i + 1, obj, callback, path, prop)

\* the elements are walked under their index in the prop too
RECURSIVE walkElements_Indexed(_, _, _, _, _)
walkElements_Indexed(i, obj, callback, path, prop) ==
  IF i > Len(obj.a) THEN <<>>
  ELSE walk(obj.a[i], callback, join(Num(i - 1), path), join(Num(i - 1), prop))
         \o walkElements_Indexed(i + 1, obj, callback, path, prop)

\* the value of a key is entered whatever the callback returned
RECURSIVE walkEntries_Mut(_, _, _, _, _)
walkEntries_Mut(i, obj, callback, path, prop) ==
  IF i > Len(obj.a) THEN <<>>
  ELSE LET newPath == join(Str(obj.a[i].key), path)
           newProp == join(Str(obj.a[i].key), prop)
           ret == CallCallback(callback, newPath, newProp)
       IN  <<Visit(newPath, newProp, ret)>>
             \o walk(obj.a[i].val, callback, newPath, newProp)
             \o walkEntries_Mut(i + 1, obj, callback, path, prop)

walk(obj, callback, path, prop) ==
  IF typeOf(obj) = Str("array")
  THEN walkElements(1, obj, callback, path, prop)
  ELSE IF typeOf(obj) # Str("object") THEN <<>>
  ELSE walkEntries(1, obj, callback, path, prop)
\* obj.forEach((v, i) => walk(v, callback, join(i, path), join('$', prop)));
\* obj.a[i] holds the element of index i - 1
walkElements(i, obj, callback, path, prop) ==
  IF i > Len(obj.a) THEN <<>>
  ELSE walk(obj.a[i], callback, join(Num(i - 1), path), join(Str("$"), prop))
         \o walkElements(i + 1, obj, callback, path, prop)
\* for (const [key, val] of Object.entries(obj))
walkEntries(i, obj, callback, path, prop) ==
  IF i > Len(obj.a) THEN <<>>
  ELSE LET newPath == join(Str(obj.a[i].key), path)
           newProp == join(Str(obj.a[i].key), prop)
           ret == CallCallback(callback, newPath, newProp)
       IN  <<Visit(newPath, newProp, ret)>>
             \o (IF ret THEN walk(obj.a[i].val, callback, newPath, newProp)
                 ELSE <<>>)
             \o walkEntries(i + 1, obj, callback, path, prop)

\* the object without what it holds under the keys segs; walk reports keys
\* of objects only, so no element of an array is removed
RECURSIVE Without(_, _)
Without(o, segs) ==
  IF segs = <<>> THEN o
  ELSE IF o.t = "object" /\ o.s = ""
  THEN IF Len(segs) = 1
       THEN Dict(SelectSeq(o.a, LAMBDA e : e.key # segs[1]))
       ELSE Dict([i \in 1..Len(o.a) |->
                    IF o.a[i].key = segs[1]
                    THEN KeyVal(o.a[i].key, Without(o.a[i].val, Tail(segs)))
                    ELSE o.a[i]])
  ELSE IF o.t = "array" /\ Len(segs) > 1
  THEN Arr([i \in 1..Len(o.a) |->
              IF ToString(i - 1) = segs[1]
              THEN Without(o.a[i], Tail(segs)) ELSE o.a[i]])
  ELSE o

\* dot.delete(obj, path)
dot_delete(obj, path) == Without(obj, splitDot(Template(path), 1, 1))

\* the registry of the property that took the rules { name: arg, ... }
RECURSIVE registryFrom(_, _, _)
registryFrom(i, entries, reg) ==
  IF i > Len(entries) THEN reg
  ELSE registryFrom(i + 1, entries,
                    _register(reg, entries[i].key, <<entries[i].val>>, Undefined))
RegistryOf(rules) == registryFrom(1, rules.a, <<>>)

DeclaredPaths(props) == {props[i].path : i \in 1..Len(props)}

\* options of a validation, with the defaults { strip: true, strict: false }
Opts(strip, strict) == [strip |-> strip, strict |-> strict]
\* the outcome of Schema.validate: the errors and the object afterwards
Outcome(errors, obj) == [errors |-> errors, obj |-> obj]

\* the errors of the callbacks that enumerate makes for one definition
RECURSIVE errorsFrom(_, _, _, _, _)
errorsFrom(j, calls, def, smsgs, obj) ==
  IF j > Len(calls) THEN <<>>
  ELSE LET err == validate(RegistryOf(def.rules),
                           [k \in MessageKeys |-> Undefined], smsgs,
                           calls[j].value, obj, Str(calls[j].path)).err
       IN  (IF err.kind = "null" THEN <<>> ELSE <<err>>)
             \o errorsFrom(j + 1, calls, def, smsgs, obj)

\* step 1: every definition path, in the order of the definitions
RECURSIVE validatePaths(_, _, _, _)
validatePaths(i, props, smsgs, obj) ==
  IF i > Len(props) THEN <<>>
  ELSE errorsFrom(1, enumerate(props[i].path, obj), props[i], smsgs, obj)
         \o validatePaths(i + 1, props, smsgs, obj)

\* the callbacks that found a path of the object without a definition
NotDefined(visits) == SelectSeq(visits, LAMBDA v : ~v.ret)

RECURSIVE stripFrom(_, _, _)
stripFrom(i, visits, obj) ==
  IF i > Len(visits) THEN obj
  ELSE stripFrom(i + 1, visits, dot_delete(obj, visits[i].path))

\* "<prop> не допускается."
Messages_illegal(prop) == Str(Template(prop) \o " ne dopuskaetsya.")

\* Schema.validate(obj, opts)
schema_validate(props, smsgs, obj, opts) ==
  LET errors == validatePaths(1, props, smsgs, obj)
      found == NotDefined(walk(obj, Accepting(DeclaredPaths(props)),
                               Undefined, Undefined))
  IN  IF opts.strict
      THEN Outcome(errors \o [i \in 1..Len(found) |->
                                ValidationError(Messages_illegal(found[i].path),
                                                found[i].path)],
                   obj)
      ELSE IF opts.strip THEN Outcome(errors, stripFrom(1, found, obj))
      ELSE Outcome(errors, obj)

\* what Schema.assert throws: nothing, or an error with a message
Thrown(thrown, msg) == [thrown |-> thrown, message |-> msg]

\* an assert that reports the last error
schema_assert_Mut(errors) ==
  IF Len(errors) > 0 THEN Thrown(TRUE, errors[Len(errors)].message)
  ELSE Thrown(FALSE, Undefined)

\* Schema.assert(obj, opts), given the errors of validate(obj, opts)
schema_assert(errors) ==
  IF Len(errors) > 0 THEN Thrown(TRUE, errors[1].message)
  ELSE Thrown(FALSE, Undefined)

\* definition paths and rules of the schema
DefPaths == {"a", "a.b", "items", "items.$", "list", "list.$.x"}
DefRules == {Rules("Number"), Dict(<<KeyVal("required", Bool(TRUE))>>)}
\* the keys above a definition path are defined with it
ParentDefined(path) ==
  LET segs == splitDot(path, 1, 1)
      keys == SelectSeq(SubSeq(segs, 1, Len(segs) - 1), LAMBDA x : x # "$")
  IN  keys = <<>> \/ HasPath(schemaProps, Joined(SubSeq(segs, 1, Len(keys)), "."))

CheckObjects ==
  { Dict(<<KeyVal("a", Num(1)), KeyVal("extra", Num(2))>>),
    Dict(<<KeyVal("a", Dict(<<KeyVal("b", Num(1)), KeyVal("c", Num(2))>>)),
           KeyVal("extra", Num(2))>>),
    Dict(<<KeyVal("items", Arr(<<Num(1), Str("a")>>))>>),
    Dict(<<KeyVal("items", Arr(<<Str("a"), Str("b")>>)),
           KeyVal("extra", Dict(<<KeyVal("deep", Num(1))>>))>>),
    Dict(<<KeyVal("list", Arr(<<Dict(<<KeyVal("x", Num(1)), KeyVal("extra", Num(2))>>),
                               Dict(<<KeyVal("x", Str("s"))>>)>>))>>),
    Dict(<<>>) }
OptsArgs == {Opts(TRUE, FALSE), Opts(TRUE, TRUE), Opts(FALSE, FALSE)}

\* schema.path(path, rules) while the schema is built
Schema_define(path, rules) ==
  /\ ParentDefined(path)
  /\ Len(schema_path(schemaProps, Str(path), rules)) <= MaxProps
  /\ schemaProps' = schema_path(schemaProps, Str(path), rules)
  /\ lastDef' = NoDef
  /\ lastCheck' = NoCheck
  /\ UNCHANGED <<propVars, probe, schemaValidators, custom, castVars,
                 enumVars, shareVars>>

Schema_validate(obj, opts) ==
  LET out == schema_validate(schemaProps, schemaMessages, obj, opts)
  IN  /\ lastCheck' = Check("validate", obj, opts, out.errors, out.obj, FALSE,
                            Undefined)
      /\ UNCHANGED <<propVars, probe, schemaValidators, custom, pathVars,
                     castVars, enumVars, shareVars>>

Schema_assert(obj, opts) ==
  LET out == schema_validate(schemaProps, schemaMessages, obj, opts)
      thrown == schema_assert(out.errors)
  IN  /\ lastCheck' = Check("assert", obj, opts, <<>>, out.obj, thrown.thrown,
                            thrown.message)
      /\ UNCHANGED <<propVars, probe, schemaValidators, custom, pathVars,
                     castVars, enumVars, shareVars>>

NextSchema ==
  \/ \E path \in DefPaths, rules \in DefRules : Schema_define(path, rules)
  \/ \E obj \in CheckObjects, opts \in OptsArgs : Schema_validate(obj, opts)
  \/ \E obj \in CheckObjects, opts \in OptsArgs : Schema_assert(obj, opts)

SpecSchema == Init /\ [][NextSchema]_vars

Below(prefix, seg) == IF prefix = "" THEN seg ELSE prefix \o "." \o seg
\* the paths of the keys of an object that have no definition while the keys
\* above them have one
RECURSIVE UndeclaredIn(_, _, _, _)
UndeclaredIn(o, path, prop, decl) ==
  IF o.t = "object"
  THEN UNION { IF Below(prop, o.a[i].key) \in decl
               THEN UndeclaredIn(o.a[i].val, Below(path, o.a[i].key),
                                 Below(prop, o.a[i].key), decl)
               ELSE {Below(path, o.a[i].key)} : i \in 1..Len(o.a) }
  ELSE IF o.t = "array"
  THEN UNION { UndeclaredIn(o.a[i], Below(path, ToString(i - 1)),
                            Below(prop, "$"), decl) : i \in 1..Len(o.a) }
  ELSE {}
\* an object with the keys that have a definition only
RECURSIVE Pruned(_, _, _)
Pruned(o, prop, decl) ==
  IF o.t = "object"
  THEN Dict(SelectSeq([i \in 1..Len(o.a) |->
                         KeyVal(o.a[i].key,
                                Pruned(o.a[i].val, Below(prop, o.a[i].key), decl))],
                      LAMBDA e : Below(prop, e.key) \in decl))
  ELSE IF o.t = "array"
  THEN Arr([i \in 1..Len(o.a) |-> Pruned(o.a[i], Below(prop, "$"), decl)])
  ELSE o
ErrorsAt(errors, p) ==
  {i \in 1..Len(errors) : errors[i].path = Str(p)}

\* C17: after Schema.validate(obj) with the default options the object is
\* obj without the keys that have no definition path, and no error is
\* reported for them; with strict: true every such key has exactly one
\* error, the illegal one, and the object is as it was.
C17_StripOrStrict ==
  lastCheck.op = "validate" =>
    LET decl == DeclaredPaths(schemaProps)
        und == UndeclaredIn(lastCheck.obj, "", "", decl)
        errors == lastCheck.errors
    IN  IF lastCheck.opts.strict
        THEN /\ lastCheck.after = lastCheck.obj
             /\ \A p \in und :
                  /\ Cardinality(ErrorsAt(errors, p)) = 1
                  /\ \A i \in ErrorsAt(errors, p) :
                       errors[i].message = Messages_illegal(Str(p))
        ELSE /\ \A p \in und : ErrorsAt(errors, p) = {}
             /\ lastCheck.opts.strip =>
                  /\ lastCheck.after = Pruned(lastCheck.obj, "", decl)
                  /\ UndeclaredIn(lastCheck.after, "", "", decl) = {}

\* { a: { b: 1, c: 2 }, extra: 2 } validated by a schema that defines a and
\* a.b: extra and the nested a.c were removed, without an error
C17_Witness ==
  /\ lastCheck.op = "validate"
  /\ lastCheck.opts = Opts(TRUE, FALSE)
  /\ DeclaredPaths(schemaProps) = {"a", "a.b"}
  /\ lastCheck.obj = Dict(<<KeyVal("a", Dict(<<KeyVal("b", Num(1)), KeyVal("c", Num(2))>>)),
                           KeyVal("extra", Num(2))>>)
  /\ lastCheck.after = Dict(<<KeyVal("a", Dict(<<KeyVal("b", Num(1))>>))>>)
  /\ RulesAt(schemaProps, "a.b") = Rules("Number")
  /\ lastCheck.errors = <<>>

\* C18: Schema.assert(obj) throws exactly when Schema.validate(obj) returns
\* errors, with the message of the first of them; on a valid object it
\* returns without throwing.
C18_AssertRoundTrip ==
  lastCheck.op = "assert" =>
    LET errors == schema_validate(schemaProps, schemaMessages, lastCheck.obj,
                                  lastCheck.opts).errors
    IN  /\ lastCheck.thrown <=> Len(errors) > 0
        /\ lastCheck.thrown => lastCheck.message = errors[1].message
        /\ ~lastCheck.thrown => lastCheck.message = Undefined

\* assert threw on { items: ['a', 'b'], ... }, whose two elements both fail
\* the type Number: the message is that of items.0
C18_Witness ==
  /\ lastCheck.op = "assert"
  /\ lastCheck.thrown
  /\ RulesAt(schemaProps, "items.$") = Rules("Number")
  /\ Len(schema_validate(schemaProps, schemaMessages, lastCheck.obj,
                         lastCheck.opts).errors) = 2
  /\ lastCheck.message = Messages_type(Str("items.0"), lastCheck.obj, Fun("Number"))

(***************************************************************************)
(* Validation and typecasting among the calls that configure a property    *)
(* and its schema.                                                         *)
(***************************************************************************)
\* prop.enum(['cat', 'dog']) and a longer enumeration
EnumArgs ==
  { Arr(<<Str("cat"), Str("dog")>>), Arr(<<Str("cat"), Str("dog"), Str("cow")>>) }
FrameValues == {Undefined, Str("cat"), Str("bird")}

NextFrame ==
  \/ \E bool \in {Bool(TRUE)} : Property_required(bool)
  \/ \E type \in {Fun("String"), Fun("Date")} : Property_type(type)
  \/ \E enums \in EnumArgs : Property_enum(enums)
  \/ \E msgs \in MessageArgs : Property_message(msgs)
  \/ \E fns \in TypecasterArgs : Schema_typecaster(fns)
  \/ \E value \in FrameValues, c \in Contexts : Property_validate(value, c[1], c[2])
  \/ \E value \in FrameValues : Property_typecast(value)

SpecFrame == Init /\ [][NextFrame]_vars

\* a step made by Property.validate or Property.typecast: the calls that
\* configure the property or the schema reset the observed call
ValidationStep ==
  \/ last'.op = "validate"
  \/ lastCast'.op = "typecast" /\ lastCast' # lastCast

\* C19: a Property.validate or Property.typecast call leaves the property's
\* rule registry (names, order, static arguments, custom functions), its
\* messages and its declared type, and the schema's validators, typecasters
\* and messages as they were.
C19_ValidationFrame ==
  [][ValidationStep =>
       UNCHANGED <<registry, messages, _type, schemaValidators, typecasters,
                   schemaMessages>>]_vars

\* a value outside the enumeration was validated and the message listing
\* the three allowed values was generated, after a typecast to the declared
\* type String: the registry still holds the three values and the type
C19_Witness ==
  /\ Validated
  /\ ValueOf = Str("bird")
  /\ last.ret.kind = "error"
  /\ Has(registry, "enum")
  /\ EntryOf("enum").args = <<Arr(<<Str("cat"), Str("dog"), Str("cow")>>)>>
  /\ last.ret.message =
       Messages_enum(last.ret.path, CtxOf, EntryOf("enum").args[1]).message
  /\ lastCast.op = "typecast"
  /\ ~lastCast.res.thrown
  /\ _type = Fun("String")

(***************************************************************************)
(* walk: the callbacks made on the keys of a nested value.                 *)
(***************************************************************************)
\* values to walk: plain objects, with arrays and arrays of arrays inside,
\* and arrays at the root
WalkObjects ==
  { Dict(<<KeyVal("a", Num(1)), KeyVal("extra", Num(2))>>),
    Dict(<<KeyVal("a", Dict(<<KeyVal("b", Num(1)),
                             KeyVal("c", Dict(<<KeyVal("d", Num(2))>>))>>))>>),
    Dict(<<KeyVal("items", Arr(<<Num(1), Str("a")>>))>>),
    Dict(<<KeyVal("list", Arr(<<Dict(<<KeyVal("x", Num(1))>>),
                               Dict(<<KeyVal("x", Num(2)), KeyVal("y", Num(0))>>)>>))>>),
    Dict(<<KeyVal("list", Arr(<<Arr(<<Dict(<<KeyVal("x", Num(1))>>)>>),
                               Arr(<<Dict(<<KeyVal("x", Num(2))>>)>>)>>))>>),
    Dict(<<>>),
    Dict(<<KeyVal("a", Null), KeyVal("items", Arr(<<>>))>>),
    Arr(<<Dict(<<KeyVal("x", Num(1))>>), Dict(<<KeyVal("x", Num(2))>>)>>),
    Arr(<<Arr(<<Dict(<<KeyVal("x", Num(1))>>)>>),
          Dict(<<KeyVal("x", Dict(<<KeyVal("y", Num(1))>>))>>)>>) }

\* the prop paths of the keys of these values, and of the elements of their
\* arrays
WalkProps ==
  { "a", "extra", "a.b", "a.c", "a.c.d", "items", "list", "list.$.x",
    "list.$.y", "list.$.$.x", "$.x", "$.$.x", "$.x.y",
    "items.$", "list.$", "list.$.$", "$", "$.$" }
\* the prop paths a callback may return false for
PrunedProps == {"a", "a.c", "list", "$.x"}
WalkCallbacks == {Accepting(WalkProps \ R) : R \in SUBSET PrunedProps}

\* walk(obj, callback): path and prop are not given
CallWalk(obj, callback) ==
  /\ lastWalk' = Walk("walk", obj, callback,
                      walk(obj, callback, Undefined, Undefined))
  /\ UNCHANGED <<propVars, probe, schemaValidators, custom, pathVars, castVars,
                 checkVars, lastEnum, shareVars>>

NextWalk == \E obj \in WalkObjects, callback \in WalkCallbacks : CallWalk(obj, callback)

SpecWalk == Init /\ [][NextWalk]_vars

\* the segments of the path and of the prop given to a callback
PathSegs(v) == splitDot(Template(v.path), 1, 1)
PropSegs(v) == splitDot(Template(v.prop), 1, 1)

\* where the keys of a value are: the keys and indices that lead to every
\* key of every plain object in it
RECURSIVE KeyLocations(_)
KeyLocations(o) ==
  IF o.t = "array"
  THEN UNION {{<<ToString(i - 1)>> \o r : r \in KeyLocations(o.a[i])} :
                i \in 1..Len(o.a)}
  ELSE IF o.t = "object" /\ o.s = ""
  THEN UNION {{<<o.a[i].key>>} \cup
              {<<o.a[i].key>> \o r : r \in KeyLocations(o.a[i].val)} :
                i \in 1..Len(o.a)}
  ELSE {}

\* the positions of a location that are indices of an array
RECURSIVE IndexPositions(_, _, _)
IndexPositions(o, segs, j) ==
  IF j > Len(segs) THEN {}
  ELSE (IF o.t = "array" THEN {j} ELSE {})
         \cup IndexPositions(ValueAt(o, <<segs[j]>>), segs, j + 1)

\* a location with `$` in the place of every index of an array
Wildcarded(o, segs) ==
  [j \in 1..Len(segs) |->
     IF j \in IndexPositions(o, segs, 1) THEN "$" ELSE segs[j]]

\* the latest call was a walk, of a plain object
Walked == lastWalk.op = "walk"
WalkedObject == Walked /\ typeOf(lastWalk.obj) = Str("object")
Visits == {lastWalk.visits[i] : i \in 1..Len(lastWalk.visits)}
AcceptsAll == lastWalk.callback = Accepting(WalkProps)

\* C27: every callback(path, prop) of walk on a plain object has for path
\* the concrete dotted path at which the key is located in the object, with
\* the indices at the array positions, so that reading the path in the
\* object gives what the key holds, and for prop the path with `$` in the
\* place of every array index.  A callback that always returns true is
\* called for every key of the object.
C27_ConcretePathAndProp ==
  WalkedObject =>
    /\ \A v \in Visits :
         /\ PathSegs(v) \in KeyLocations(lastWalk.obj)
         /\ dot_get(lastWalk.obj, Template(v.path))
              = ValueAt(lastWalk.obj, PathSegs(v))
         /\ PropSegs(v) = Wildcarded(lastWalk.obj, PathSegs(v))
    /\ AcceptsAll => {PathSegs(v) : v \in Visits} = KeyLocations(lastWalk.obj)

\* the keys of the objects in an array of arrays got list.0.0.x and
\* list.1.0.x, both with the prop list.$.$.x
C27_Witness ==
  /\ WalkedObject
  /\ AcceptsAll
  /\ lastWalk.visits =
       <<Visit(Str("list"), Str("list"), TRUE),
         Visit(Str("list.0.0.x"), Str("list.$.$.x"), TRUE),
         Visit(Str("list.1.0.x"), Str("list.$.$.x"), TRUE)>>

\* a segment that is written as an array index
IsIndex(seg) ==
  /\ Len(seg) > 0
  /\ \A k \in 1..Len(seg) :
       SubSeq(seg, k, k) \in {"0", "1", "2", "3", "4", "5", "6", "7", "8", "9"}
\* the segments that are keys of objects
KeysOf(segs) == SelectSeq(segs, LAMBDA seg : seg # "$" /\ ~IsIndex(seg))
\* the prop has `$` where walk went into an array, and the keys elsewhere
PropOfKeys(v) ==
  /\ \A j \in 1..Len(PropSegs(v)) : ~IsIndex(PropSegs(v)[j])
  /\ PropSegs(v) \in {Wildcarded(lastWalk.obj, loc) :
                        loc \in KeyLocations(lastWalk.obj)}
  /\ KeysOf(PathSegs(v)) = KeysOf(PropSegs(v))

\* C23 (as stated): going into an array adds a `$` segment to the prop, the
\* keys of objects are added to both the path and the prop, and neither the
\* path nor the prop given to a callback has the index of an array element.
C23_NoIndexSegment ==
  WalkedObject =>
    \A v \in Visits :
      /\ PropOfKeys(v)
      /\ \A j \in 1..Len(PathSegs(v)) : ~IsIndex(PathSegs(v)[j])

\* C23: in a walk of a plain object, going into an array adds a `$` segment
\* to the prop and the index of the element to the path; the keys of objects
\* are added to both.  No prop given to a callback has the index of an array
\* element, and the path has it exactly where the prop has `$`.
C23_IndexInPathOnly ==
  WalkedObject =>
    \A v \in Visits :
      /\ PropOfKeys(v)
      /\ Len(PathSegs(v)) = Len(PropSegs(v))
      /\ \A j \in 1..Len(PropSegs(v)) :
           IF PropSegs(v)[j] = "$" THEN IsIndex(PathSegs(v)[j])
           ELSE PathSegs(v)[j] = PropSegs(v)[j]

\* the keys of the second element of list were given with list.1 in the
\* path and list.$ in the prop
C23_Witness ==
  /\ WalkedObject
  /\ Visit(Str("list.1.y"), Str("list.$.y"), TRUE) \in Visits
  /\ Visit(Str("list.0.x"), Str("list.$.x"), TRUE) \in Visits

\* the callbacks of a depth-first traversal, stated on segments: one for
\* every key in turn, the value of the key being entered when the callback
\* returned true; an array is entered element by element, each element
\* getting a callback of its own only when elems holds
Node(path, prop, ret) == [path |-> path, prop |-> prop, ret |-> ret]
RECURSIVE Traversal(_, _, _, _, _)
RECURSIVE TraversalOfElements(_, _, _, _, _, _)
RECURSIVE TraversalOfEntries(_, _, _, _, _, _)
Traversal(o, path, prop, callback, elems) ==
  IF o.t = "array" THEN TraversalOfElements(1, o, path, prop, callback, elems)
  ELSE IF o.t = "object" /\ o.s = ""
  THEN TraversalOfEntries(1, o, path, prop, callback, elems)
  ELSE <<>>
TraversalOfElements(i, o, path, prop, callback, elems) ==
  IF i > Len(o.a) THEN <<>>
  ELSE LET newPath == Append(path, ToString(i - 1))
           newProp == Append(prop, "$")
           ret == Joined(newProp, ".") \in callback.accept
           below == Traversal(o.a[i], newPath, newProp, callback, elems)
       IN  (IF elems
            THEN <<Node(newPath, newProp, ret)>> \o (IF ret THEN below ELSE <<>>)
            ELSE below)
             \o TraversalOfElements(i + 1, o, path, prop, callback, elems)
TraversalOfEntries(i, o, path, prop, callback, elems) ==
  IF i > Len(o.a) THEN <<>>
  ELSE LET newPath == Append(path, o.a[i].key)
           newProp == Append(prop, o.a[i].key)
           ret == Joined(newProp, ".") \in callback.accept
       IN  <<Node(newPath, newProp, ret)>>
             \o (IF ret THEN Traversal(o.a[i].val, newPath, newProp, callback, elems)
                 ELSE <<>>)
             \o TraversalOfEntries(i + 1, o, path, prop, callback, elems)

\* the props given to the callbacks and what they returned, in order
Returned(nodes) == [i \in 1..Len(nodes) |-> <<nodes[i].prop, nodes[i].ret>>]
VisitedProps ==
  [i \in 1..Len(lastWalk.visits) |->
     <<PropSegs(lastWalk.visits[i]), lastWalk.visits[i].ret>>]

\* C24 (as stated): walk calls the callback exactly once at every node below
\* the root, the elements of arrays included, and enters the children of a
\* node exactly when the callback returned true for it; nothing in a pruned
\* subtree gets a callback.
C24_EveryNode ==
  Walked =>
    VisitedProps = Returned(Traversal(lastWalk.obj, <<>>, <<>>,
                                      lastWalk.callback, TRUE))

\* C24: walk calls the callback exactly once for every key of every plain
\* object it reaches, and enters the value of a key exactly when the
\* callback returned true for it; nothing under a key for which it returned
\* false gets a callback.  The elements of an array get no callback of their
\* own: walk enters every one of them.
C24_EveryKey ==
  Walked =>
    VisitedProps = Returned(Traversal(lastWalk.obj, <<>>, <<>>,
                                      lastWalk.callback, FALSE))

\* the callback returned false for a.c and true for a: a.b and a.c were
\* given, a.c.d was not
C24_Witness ==
  /\ Walked
  /\ lastWalk.visits = <<Visit(Str("a"), Str("a"), TRUE),
                         Visit(Str("a.b"), Str("a.b"), TRUE),
                         Visit(Str("a.c"), Str("a.c"), FALSE)>>

\* C28: when walk starts on an array, the path given to the callback for a
\* key inside the element of index i begins with the segment i, for every
\* i, 0 included.
C28_RootArrayIndex ==
  (Walked /\ typeOf(lastWalk.obj) = Str("array")) =>
    [i \in 1..Len(lastWalk.visits) |-> PathSegs(lastWalk.visits[i])]
      = LET nodes == Traversal(lastWalk.obj, <<>>, <<>>, lastWalk.callback, FALSE)
        IN  [i \in 1..Len(nodes) |-> nodes[i].path]

\* the same for the elements after the first: the keys in the element of
\* index i > 0 of an array at the root are given with a path that begins
\* with i
RootArrayIndexAfterFirst ==
  (Walked /\ typeOf(lastWalk.obj) = Str("array")) =>
    LET nodes == Traversal(lastWalk.obj, <<>>, <<>>, lastWalk.callback, FALSE)
    IN  /\ Len(nodes) = Len(lastWalk.visits)
        /\ \A i \in 1..Len(nodes) :
             nodes[i].path[1] # "0" =>
               PathSegs(lastWalk.visits[i]) = nodes[i].path

(***************************************************************************)
(* The built-in validators on absent values: each validator applied to the *)
(* value, and the rules of a property validated together.                  *)
(***************************************************************************)
\* arrays of allowed values
EnumsArgs ==
  { Arr(<<>>), Arr(<<Str("a")>>), Arr(<<Str(""), Str("a")>>),
    Arr(<<Num(1), Str("aa")>>) }
RegExpArgs == {RegExp("^a+$"), RegExp("^a*$"), RegExp("^$")}

CallEnum ==
  \E enums \in EnumsArgs :
    /\ probe' = Probe("enum", probe.value, enums,
                      Validators_enum(probe.value, ProbeCtx, enums))
    /\ UNCHANGED <<propVars, extVars>>

CallMatch ==
  \E regexp \in RegExpArgs :
    /\ probe' = Probe("match", probe.value, regexp,
                      Validators_match(probe.value, ProbeCtx, regexp))
    /\ UNCHANGED <<propVars, extVars>>

\* the rules of a property, as the calls required(bool), type(T),
\* length(rules), size(rules), enum(enums) and match(regexp) that made them
RuleSets ==
  { Dict(<<KeyVal("type", Fun("Number"))>>),
    Dict(<<KeyVal("required", Bool(FALSE)), KeyVal("type", Fun("String")),
           KeyVal("length", MinMax(<<1>>, <<>>))>>),
    Dict(<<KeyVal("length", Num(2)), KeyVal("enum", Arr(<<Str("a")>>))>>),
    Dict(<<KeyVal("size", MinMax(<<1>>, <<2>>)), KeyVal("match", RegExp("^a+$"))>>),
    Dict(<<KeyVal("required", Bool(FALSE)), KeyVal("match", RegExp("^a*$"))>>),
    Dict(<<KeyVal("enum", Arr(<<Str(""), Str("a")>>))>>),
    Dict(<<KeyVal("required", Bool(TRUE)), KeyVal("type", Fun("String"))>>) }

\* prop.validate(value, ctx) on a property with the rules: whether it
\* returned null
CallRules ==
  \E rules \in RuleSets :
    /\ probe' = Probe("validate", probe.value, rules,
                      validate(RegistryOf(rules), [k \in MessageKeys |-> Undefined],
                               DefaultMessages, probe.value, ProbeCtx,
                               Undefined).err = NoError)
    /\ UNCHANGED <<propVars, extVars>>

NextBuiltIns ==
  \/ CallType
  \/ CallLength
  \/ CallSize
  \/ CallEnum
  \/ CallMatch
  \/ CallRules

SpecBuiltIns == InitValidators /\ [][NextBuiltIns]_vars

\* the rules do not require the value: required is not among them, or is
\* there with false
NotRequired(rules) ==
  \A i \in 1..Len(rules.a) :
    rules.a[i].key = "required" => rules.a[i].val = Bool(FALSE)

\* a rule argument that an empty string does not satisfy
EmptyFails(rule, arg) ==
  CASE rule = "type" -> arg \notin {Fun("String"), Str("string")}
    [] rule = "length" ->
         IF arg.t = "number" THEN arg.n # 0
         ELSE arg.min # <<>> /\ arg.min[1] > 0
    [] rule = "size" ->
         IF arg.t = "number" THEN TRUE
         ELSE (arg.min # <<>> /\ arg.min[1] > 0) \/ (arg.max # <<>> /\ arg.max[1] < 0)
    [] rule = "enum" -> \A i \in 1..Len(arg.a) : arg.a[i] # Str("")
    [] rule = "match" -> arg = RegExp("^a+$")
    [] OTHER -> FALSE

\* C30: type, length, size, enum and match pass for a null or undefined
\* value whatever the rule argument, so validating an absent value on a
\* property whose rules are built-in and do not require it (required not
\* registered, or registered with false) gives no error; an empty string is
\* a present value for these validators: it fails every rule argument that a
\* string of length 0 does not satisfy.
C30_AbsentPasses ==
  /\ (probe.name \in {"type", "length", "size", "enum", "match"}
        /\ IsNullish(probe.value)) => probe.ret
  /\ (probe.name = "validate" /\ IsNullish(probe.value) /\ NotRequired(probe.arg))
       => probe.ret
  /\ (probe.value = Str("") /\ EmptyFails(probe.name, probe.arg)) => ~probe.ret
  /\ (probe.name = "validate" /\ probe.value = Str("")
        /\ \E i \in 1..Len(probe.arg.a) :
             EmptyFails(probe.arg.a[i].key, probe.arg.a[i].val)) => ~probe.ret

\* undefined passed size and match together, with no required rule
C30_Witness ==
  /\ probe.name = "validate"
  /\ probe.value = Undefined
  /\ probe.arg = Dict(<<KeyVal("size", MinMax(<<1>>, <<2>>)),
                        KeyVal("match", RegExp("^a+$"))>>)
  /\ probe.ret

\* the same rules gave an error for the empty string
EmptyStringSeen ==
  /\ probe.name = "validate"
  /\ probe.value = Str("")
  /\ probe.arg = Dict(<<KeyVal("size", MinMax(<<1>>, <<2>>)),
                        KeyVal("match", RegExp("^a+$"))>>)
  /\ ~probe.ret

(***************************************************************************)
(* The position of a rule that is registered again.                        *)
(***************************************************************************)
\* C26: registering again a rule name that the registry already holds
\* replaces its arguments and keeps the position of its first registration:
\* the keys of the registry are always the rule names in the order of their
\* first registration, and validate runs the rules in that order, not in the
\* order of the latest calls.
C26_FirstRegistrationOrder ==
  /\ Keys(registry) = registered
  /\ (last.op \in {"required", "type", "length"} /\ last.replaced) =>
       EntryOf(last.op).args =
         IF last.argv = <<Undefined>> THEN <<Bool(TRUE)>> ELSE last.argv
  /\ Validated =>
       \A i, j \in 1..Len(last.calls) :
         i < j => \E k, l \in 1..Len(registered) :
                    /\ k < l
                    /\ registered[k] = last.calls[i].type
                    /\ registered[l] = last.calls[j].type

\* required(true) has just been called on a property that had required and
\* then type registered: required is still the first rule
C26_Witness ==
  /\ last.op = "required"
  /\ last.replaced
  /\ last.argv = <<Bool(TRUE)>>
  /\ Keys(registry) = <<"required", "type">>

\* validate then ran required before type
ReRegisteredThenValidated ==
  /\ Validated
  /\ registered = <<"required", "type">>
  /\ Len(last.calls) = 2
  /\ last.calls[1].type = "required"
  /\ last.calls[2].type = "type"

(***************************************************************************)
(* use with an object that the caller keeps.  An entry [fn, ...staticArgs] *)
(* is an array of the caller: use takes the function off it with           *)
(* arr.shift() and registers the array itself as the static arguments, so  *)
(* the registry entry and the caller's entry are one array.                *)
(***************************************************************************)
\* an entry of the object: its key, whether it is an array, and the items of
\* the array (the function alone when the entry is a bare function)
HeldItem(key, isArray, items) == [key |-> key, isArray |-> isArray, items |-> items]

\* the objects a caller makes
HeldArgs ==
  { <<HeldItem("bits", TRUE, <<Fun("bitsFn"), Num(2)>>)>>,
    <<HeldItem("length", FALSE, <<Fun("notNullFn")>>),
      HeldItem("bits", TRUE, <<Fun("bitsFn"), Num(2), Num(0)>>)>>,
    <<HeldItem("bits", FALSE, <<Fun("rejectFn")>>)>> }

\* the properties of the schema that the object is given to
Props == {"this", "other"}
RegistryOfProp(p) == IF p = "this" THEN registry ELSE other

\* let arr = fns[name]; if (!Array.isArray(arr)) arr = [arr]: what use finds
\* under each key
FnsOf(fns) == [i \in 1..Len(fns) |-> FnsItem(fns[i].key, fns[i].items)]

\* arr.shift() on every entry that is an array; a bare function is wrapped
\* in a new array, which is the one shifted
shifted(fns) ==
  [i \in 1..Len(fns) |->
     IF fns[i].isArray /\ fns[i].items # <<>>
     THEN [fns[i] EXCEPT !.items = Tail(fns[i].items)]
     ELSE fns[i]]

\* a registry whose entries registered from the object hold its arrays: the
\* static arguments are what the arrays hold now
Seen(reg, p, fns, pairs) ==
  [i \in 1..Len(reg) |->
     IF \E k \in 1..Len(fns) :
          /\ fns[k].key = reg[i].name
          /\ fns[k].isArray
          /\ <<p, fns[k].key>> \in pairs
     THEN [reg[i] EXCEPT !.args =
             (CHOOSE item \in {fns[k] : k \in 1..Len(fns)} :
                item.key = reg[i].name).items]
     ELSE reg[i]]

\* const fns = { ... }
Caller_make(fns) ==
  /\ held' = fns
  /\ made' = fns
  /\ shared' = {}
  /\ last' = Idle
  /\ UNCHANGED <<registry, _type, messages, schemaMessages, registered, probe,
                 other, schemaValidators, custom, pathVars, castVars, enumVars,
                 checkVars>>

\* prop.use(fns) with the object the caller holds, on either property
Property_useHeld(p) ==
  /\ held # <<>>
  /\ Len(use(RegistryOfProp(p), FnsOf(held))) <= MaxRules
  /\ held' = shifted(held)
  /\ shared' = shared \cup {<<p, held[i].key>> : i \in 1..Len(held)}
  /\ registry' = IF p = "this" THEN use(registry, FnsOf(held))
                 ELSE Seen(registry, "this", held', shared)
  /\ other' = IF p = "other" THEN use(other, FnsOf(held))
              ELSE Seen(other, "other", held', shared)
  /\ last' = Last("use", <<>>, <<>>, NoError,
                  \E i \in 1..Len(held) : Has(RegistryOfProp(p), held[i].key))
  /\ registered' = IF p = "this"
                   THEN FirstSeen(1, [i \in 1..Len(held) |-> held[i].key], registered)
                   ELSE registered
  /\ custom' = IF p = "this" THEN customFrom(1, FnsOf(held), custom) ELSE custom
  /\ UNCHANGED <<_type, messages, schemaMessages, probe, made, schemaValidators,
                 pathVars, castVars, enumVars, checkVars>>

NextShare ==
  \/ \E fns \in HeldArgs : Caller_make(fns)
  \/ \E p \in Props : Property_useHeld(p)
  \/ \E value \in UseValues, c \in Contexts : Property_validate(value, c[1], c[2])

SpecShare == Init /\ [][NextShare]_vars

\* the entry of the object, as it was made, under a key
MadeItem(key) == CHOOSE item \in {made[i] : i \in 1..Len(made)} : item.key = key
\* the entry that a property holds under a rule name
EntryIn(p, type) == RegistryOfProp(p)[IndexOf(RegistryOfProp(p), type)]
\* the entry holds the function and the static arguments that the caller
\* wrote under the key
AsMade(p, key) ==
  /\ Has(RegistryOfProp(p), key)
  /\ EntryIn(p, key).fn = Head(MadeItem(key).items)
  /\ EntryIn(p, key).args = Tail(MadeItem(key).items)

\* C25: use does not modify its argument: the object that the caller gave
\* to use is as the caller made it, so every property that was given the
\* object, once or several times, holds under each of its names the function
\* and the static arguments that the caller wrote.
C25_UseKeepsArgument ==
  /\ held = made
  /\ \A pair \in shared : AsMade(pair[1], pair[2])

\* the same for the entries that are bare functions: they are never changed
\* and are registered as written however often the object is given
BareFunctionsKept ==
  \A i \in 1..Len(held) :
    ~held[i].isArray =>
      /\ held[i] = made[i]
      /\ \A p \in Props : <<p, held[i].key>> \in shared => AsMade(p, held[i].key)

\* the object { bits: [bitsFn, 2] } was given to both properties: the second
\* one holds the number 2 as its function, the first one has lost its
\* static argument, and the caller's array is empty
SharedTwice ==
  /\ made = <<HeldItem("bits", TRUE, <<Fun("bitsFn"), Num(2)>>)>>
  /\ held = <<HeldItem("bits", TRUE, <<>>)>>
  /\ shared = {<<"this", "bits">>, <<"other", "bits">>}
  /\ EntryIn("this", "bits") = Entry("bits", <<>>, Fun("bitsFn"))
  /\ EntryIn("other", "bits") = Entry("bits", <<>>, Num(2))

====
